---- MODULE Spec2Model ----
(***************************************************************************)
(* Verification model of the retrieval agent's core: the domain-authority  *)
(* lookup (ranking/domain_authority.py), the heuristic ranker              *)
(* (ranking/heuristics.py) and the normalizer (tools/normalize.py).        *)
(*                                                                         *)
(* Numbers.  Python floats are kept as fixed-point integers in hundredths: *)
(* 1.0 is 100, a weight of 0.4 is 40, an authority of 0.95 is 95.  A float *)
(* product is rounded to the nearest representable value; here the grid is *)
(* the hundredth (RoundMul).  final_score, on the 0-100 scale, is then an  *)
(* integer number of points.                                               *)
(*                                                                         *)
(* Strings are sequences of one-character strings.  Time is counted in     *)
(* half days (TicksPerDay ticks to the day), the clock in UTC.             *)
(***************************************************************************)
EXTENDS Integers, Sequences, FiniteSets, TLC

VARIABLES
    \* ---- get_domain_authority ----
    adDomain,        \* the domain handed to get_domain_authority
    adVariant,       \* a re-spelling of adDomain (case, "www." inserted)
    adLeadingOnly,   \* TRUE when adVariant differs from adDomain only by
                     \* letter case and a leading "www."
    adCalled,        \* TRUE once the lookups have been made
    adScore,         \* get_domain_authority(adDomain)
    adVariantScore,  \* get_domain_authority(adVariant)
    adNorm           \* normalized_domain computed for adDomain

VARIABLES
    \* ---- the wall clock, read by datetime.now() ----
    clock,           \* the current instant (UTC), in ticks

    \* ---- one call of rank_by_heuristics ----
    rkDocuments,     \* documents, the list passed in
    rkCallerDocs,    \* the list as the caller built it
    rkWeights,       \* <<recency_weight, authority_weight, provider_weight>>
    rkHalflife,      \* recency_halflife_days
    rkPc,            \* position in the function body
    rkNow,           \* the local variable now
    rkNowReads,      \* number of calls of datetime.now() made by the call
    rkScoredDocs,    \* the local list scored_docs
    rkOutcome,       \* "running", "returned" or "ValueError"
    rkReturned       \* the list returned

VARIABLES
    \* ---- one call of normalize_batch ----
    nbResults,       \* results, the list passed in
    nbPc,            \* position in the function body
    nbDocs,          \* the list the comprehension has built so far
    nbReadings,      \* the clock at each call of normalize_search_result
    nbReturned       \* the list returned

VARIABLES
    \* ---- one call of extract_domain ----
    edUrl,           \* url, the argument
    edPc,            \* "call", "done", or "idle"
    edDomain         \* the string returned

VARIABLES
    \* ---- one call of _truncate_text ----
    ttText,          \* text, the argument
    ttPc,            \* "call", "done", or "idle"
    ttSnippet        \* the string returned

VARIABLES
    \* ---- one record taken through normalize, rank and explain ----
    plResult,        \* the SearchResult
    plPc,            \* "normalize", "rank", "explain", "done", or "idle"
    plDoc,           \* what normalize_search_result returned or raised
    plNormAt,        \* the clock when normalize_search_result ran
    plRanked,        \* the list rank_by_heuristics returned for [plDoc]
    plAge,           \* age_delta in ticks as _calculate_recency_score computed it
    plExplained      \* what explain_score returned or raised

VARIABLES
    \* ---- one call of _calculate_recency_score ----
    rcPublished,     \* published_at, the argument (None or a datetime)
    rcNow,           \* now, the argument
    rcHalflife,      \* halflife_days, the argument
    rcPc,            \* "call", "done", or "idle"
    rcScore          \* the score returned, in hundredths

VARIABLES
    \* ---- app.py: the job store, one background task, the open streams ----
    jobs,            \* the jobs dict: job_id -> [status, events, result]
    jbPc,            \* where process_retrieval_job stands: "none", "scheduled",
                     \* "gather" (suspended at line 78), "returned", or "idle"
    jbRequest,       \* the RetrieveRequest the task was started with
    jbTasks,         \* exa_task and perplexity_task of line 78, once gather
                     \* has returned
    stPc,            \* per stream: "unopened", "not_found", "yielded" (an event
                     \* handed out, line 245), "sleeping" (line 264),
                     \* "result" (the result item handed out, line 252), "closed"
    stSent,          \* per stream: sent_events
    stOut            \* per stream: the items the client has received, in order

VARIABLES
    \* ---- one call of ExaClient.search ----
    exMaxRetries,    \* max_retries, the argument
    exPc,            \* "loop", "api" (awaiting _call_exa_api), "sleep"
                     \* (awaiting asyncio.sleep), "done", or "idle"
    exAttempt,       \* attempt, the loop variable
    exLog,           \* the API calls made and the waits slept, in order
    exLastError,     \* last_error
    exOutcome        \* what the call returned or raised

authVars == <<adDomain, adVariant, adLeadingOnly, adCalled, adScore,
              adVariantScore, adNorm>>

rankVars == <<rkDocuments, rkCallerDocs, rkWeights, rkHalflife, rkPc, rkNow,
              rkNowReads, rkScoredDocs, rkOutcome, rkReturned>>

normVars == <<nbResults, nbPc, nbDocs, nbReadings, nbReturned>>

domVars == <<edUrl, edPc, edDomain>>

truncVars == <<ttText, ttPc, ttSnippet>>

pipeVars == <<plResult, plPc, plDoc, plNormAt, plRanked, plAge, plExplained>>

recVars == <<rcPublished, rcNow, rcHalflife, rcPc, rcScore>>

jobVars == <<jobs, jbPc, jbRequest, jbTasks, stPc, stSent, stOut>>

exaVars == <<exMaxRetries, exPc, exAttempt, exLog, exLastError, exOutcome>>

vars == <<authVars, clock, rankVars, normVars, domVars, truncVars, pipeVars,
          recVars, jobVars, exaVars>>

\* what each operation leaves alone
notRankVars == <<authVars, normVars, domVars, truncVars, pipeVars, recVars, jobVars, exaVars>>
notAuthVars == <<clock, rankVars, normVars, domVars, truncVars, pipeVars, recVars, jobVars, exaVars>>
notNormVars == <<authVars, rankVars, domVars, truncVars, pipeVars, recVars, jobVars, exaVars>>
notDomVars == <<authVars, clock, rankVars, normVars, truncVars, pipeVars, recVars, jobVars, exaVars>>
notTruncVars == <<authVars, clock, rankVars, normVars, domVars, pipeVars, recVars, jobVars, exaVars>>
notPipeVars == <<authVars, rankVars, normVars, domVars, truncVars, recVars, jobVars, exaVars>>
notRecVars == <<authVars, clock, rankVars, normVars, domVars, truncVars, pipeVars, jobVars, exaVars>>
notJobVars == <<authVars, clock, rankVars, normVars, domVars, truncVars, pipeVars, recVars, exaVars>>
notExaVars == <<authVars, clock, rankVars, normVars, domVars, truncVars, pipeVars, recVars, jobVars>>

(***************************************************************************)
(* Strings                                                                 *)
(***************************************************************************)
UpperChars == <<"A","B","C","D","E","F","G","H","I","J","K","L","M",
                "N","O","P","Q","R","S","T","U","V","W","X","Y","Z">>
LowerChars == <<"a","b","c","d","e","f","g","h","i","j","k","l","m",
                "n","o","p","q","r","s","t","u","v","w","x","y","z">>

\* None where a str is expected (Optional[str], or a caller passing None).
NoneStr == <<"None">>

UpperSet == {UpperChars[i] : i \in 1..26}
LowerSet == {LowerChars[i] : i \in 1..26}
ToLower == [c \in UpperSet |-> LowerChars[CHOOSE i \in 1..26 : UpperChars[i] = c]]
ToUpper == [c \in LowerSet |-> UpperChars[CHOOSE i \in 1..26 : LowerChars[i] = c]]

\* str.lower() and str.upper() on one character
LowerChar(c) == IF c \in UpperSet THEN ToLower[c] ELSE c
UpperChar(c) == IF c \in LowerSet THEN ToUpper[c] ELSE c

\* str.lower() and str.upper()
StrLower(s) == [i \in 1..Len(s) |-> LowerChar(s[i])]
StrUpper(s) == [i \in 1..Len(s) |-> UpperChar(s[i])]

\* str.startswith(p)
StartsWith(s, p) == Len(s) >= Len(p) /\ SubSeq(s, 1, Len(p)) = p

\* p in s
Contains(s, p) == \E i \in 1..(Len(s) - Len(p) + 1) : SubSeq(s, i, i + Len(p) - 1) = p

WwwDot == <<"w","w","w",".">>

\* s.replace(old, ""): every non-overlapping occurrence of old, found left to
\* right, is removed; the scan goes on after the removed occurrence.
RECURSIVE StrRemoveAll(_, _)
StrRemoveAll(s, old) ==
    IF Len(s) < Len(old) THEN s
    ELSE IF StartsWith(s, old)
         THEN StrRemoveAll(SubSeq(s, Len(old) + 1, Len(s)), old)
         ELSE <<Head(s)>> \o StrRemoveAll(Tail(s), old)

(***************************************************************************)
(* ranking/domain_authority.py                                             *)
(***************************************************************************)
DOMAIN_AUTHORITY_SCORES ==
       (<<"t","e","c","h","c","r","u","n","c","h",".","c","o","m">> :> 100)
    @@ (<<"t","h","e","v","e","r","g","e",".","c","o","m">> :> 100)
    @@ (<<"a","r","s","t","e","c","h","n","i","c","a",".","c","o","m">> :> 100)
    @@ (<<"w","i","r","e","d",".","c","o","m">> :> 100)
    @@ (<<"e","n","g","a","d","g","e","t",".","c","o","m">> :> 100)
    @@ (<<"t","h","e","i","n","f","o","r","m","a","t","i","o","n",".","c","o","m">> :> 100)
    @@ (<<"s","t","r","a","t","e","c","h","e","r","y",".","c","o","m">> :> 100)
    @@ (<<"o","p","e","n","a","i",".","c","o","m">> :> 100)
    @@ (<<"a","n","t","h","r","o","p","i","c",".","c","o","m">> :> 100)
    @@ (<<"d","e","e","p","m","i","n","d",".","c","o","m">> :> 100)
    @@ (<<"g","o","o","g","l","e",".","c","o","m">> :> 100)
    @@ (<<"m","i","c","r","o","s","o","f","t",".","c","o","m">> :> 100)
    @@ (<<"a","p","p","l","e",".","c","o","m">> :> 100)
    @@ (<<"m","e","t","a",".","c","o","m">> :> 100)
    @@ (<<"n","v","i","d","i","a",".","c","o","m">> :> 100)
    @@ (<<"a","r","x","i","v",".","o","r","g">> :> 95)
    @@ (<<"s","c","h","o","l","a","r",".","g","o","o","g","l","e",".","c","o","m">> :> 95)
    @@ (<<"m","i","t",".","e","d","u">> :> 95)
    @@ (<<"s","t","a","n","f","o","r","d",".","e","d","u">> :> 95)
    @@ (<<"b","e","r","k","e","l","e","y",".","e","d","u">> :> 95)
    @@ (<<"c","a","l","t","e","c","h",".","e","d","u">> :> 95)
    @@ (<<"o","x",".","a","c",".","u","k">> :> 95)
    @@ (<<"c","a","m",".","a","c",".","u","k">> :> 95)
    @@ (<<"n","a","t","u","r","e",".","c","o","m">> :> 90)
    @@ (<<"s","c","i","e","n","c","e",".","o","r","g">> :> 90)
    @@ (<<"s","c","i","e","n","c","e","d","i","r","e","c","t",".","c","o","m">> :> 90)
    @@ (<<"s","p","r","i","n","g","e","r",".","c","o","m">> :> 90)
    @@ (<<"i","e","e","e",".","o","r","g">> :> 90)
    @@ (<<"a","c","m",".","o","r","g">> :> 90)
    @@ (<<"p","l","o","s",".","o","r","g">> :> 90)
    @@ (<<"v","e","n","t","u","r","e","b","e","a","t",".","c","o","m">> :> 85)
    @@ (<<"z","d","n","e","t",".","c","o","m">> :> 85)
    @@ (<<"c","n","e","t",".","c","o","m">> :> 85)
    @@ (<<"t","e","c","h","n","o","l","o","g","y","r","e","v","i","e","w",".","c","o","m">> :> 85)
    @@ (<<"t","h","e","a","t","l","a","n","t","i","c",".","c","o","m">> :> 85)
    @@ (<<"n","e","w","y","o","r","k","e","r",".","c","o","m">> :> 85)
    @@ (<<"h","a","c","k","e","r","n","e","w","s",".","c","o","m">> :> 80)
    @@ (<<"y","c","o","m","b","i","n","a","t","o","r",".","c","o","m">> :> 80)
    @@ (<<"g","i","t","h","u","b",".","c","o","m">> :> 80)
    @@ (<<"s","t","a","c","k","o","v","e","r","f","l","o","w",".","c","o","m">> :> 80)
    @@ (<<"d","e","v",".","t","o">> :> 80)
    @@ (<<"m","e","d","i","u","m",".","c","o","m">> :> 75)
    @@ (<<"r","e","u","t","e","r","s",".","c","o","m">> :> 70)
    @@ (<<"b","l","o","o","m","b","e","r","g",".","c","o","m">> :> 70)
    @@ (<<"w","s","j",".","c","o","m">> :> 70)
    @@ (<<"n","y","t","i","m","e","s",".","c","o","m">> :> 70)
    @@ (<<"w","a","s","h","i","n","g","t","o","n","p","o","s","t",".","c","o","m">> :> 70)
    @@ (<<"t","h","e","g","u","a","r","d","i","a","n",".","c","o","m">> :> 70)
    @@ (<<"b","b","c",".","c","o",".","u","k">> :> 70)
    @@ (<<"b","b","c",".","c","o","m">> :> 70)
    @@ (<<"w","i","k","i","p","e","d","i","a",".","o","r","g">> :> 65)

DEFAULT_DOMAIN_AUTHORITY == 50

ListedDomains == DOMAIN DOMAIN_AUTHORITY_SCORES

\* a lookup that forgets .lower()
normalized_domain_KeepsCase(domain) == StrRemoveAll(domain, WwwDot)

\* line 111: domain.lower().replace("www.", "")
normalized_domain(domain) == StrRemoveAll(StrLower(domain), WwwDot)

\* dict.get(key, default)
DictGet(d, key, default) == IF key \in DOMAIN d THEN d[key] ELSE default

get_domain_authority(domain) ==
    IF domain = <<>> \/ domain = NoneStr
    THEN DEFAULT_DOMAIN_AUTHORITY
    ELSE DictGet(DOMAIN_AUTHORITY_SCORES, normalized_domain(domain),
                 DEFAULT_DOMAIN_AUTHORITY)

get_authority_tier(score) ==
    IF score >= 95 THEN "Premium"
    ELSE IF score >= 90 THEN "Academic"
    ELSE IF score >= 85 THEN "Respected"
    ELSE IF score >= 80 THEN "Community"
    ELSE IF score >= 70 THEN "Mainstream"
    ELSE IF score >= 60 THEN "Reference"
    ELSE "Unknown"

(***************************************************************************)
(* Callers of get_domain_authority: the domains tried                      *)
(***************************************************************************)
MaxShort == 8    \* longest string over ShortAlphabet tried as a domain

ShortAlphabet == {"w", "."}

RECURSIVE StringsUpTo(_, _)
StringsUpTo(alphabet, n) ==
    IF n = 0 THEN {<<>>}
    ELSE LET shorter == StringsUpTo(alphabet, n - 1)
         IN  shorter \cup {<<c>> \o s : c \in alphabet, s \in {t \in shorter : Len(t) = n - 1}}

UnlistedSamples ==
    { <<"r","a","n","d","o","m","-","b","l","o","g",".","c","o","m">>,
      <<"t","e","s","t",".","c","o","m">>,
      <<"u","n","k","n","o","w","n">> }

AuthInputs ==
    ListedDomains \cup UnlistedSamples \cup {NoneStr}
        \cup StringsUpTo(ShortAlphabet, MaxShort)

\* one letter of s written in the other case
ToggleCase(s, i) ==
    [s EXCEPT ![i] = IF @ \in UpperSet THEN LowerChar(@) ELSE UpperChar(@)]

\* s itself, s in upper case, and s with one letter in the other case
Recasings(s) == {s, StrUpper(s)} \cup {ToggleCase(s, i) : i \in 1..Len(s)}

\* the re-casings of s and of "www." + s
LeadingRespellings(s) == Recasings(s) \cup Recasings(WwwDot \o s)

\* s with "www." written after its i-th character, i >= 1
InnerRespellings(s) ==
    {SubSeq(s, 1, i) \o WwwDot \o SubSeq(s, i + 1, Len(s)) : i \in 1..Len(s)}

Respellings(s) ==
    IF s = NoneStr THEN {s} ELSE LeadingRespellings(s) \cup InnerRespellings(s)

AuthInit ==
    /\ adDomain \in AuthInputs
    /\ adVariant \in Respellings(adDomain)
    /\ adLeadingOnly = (adDomain = NoneStr \/ adVariant \in LeadingRespellings(adDomain))
    /\ adCalled = FALSE
    /\ adScore = -1
    /\ adVariantScore = -1
    /\ adNorm = <<>>

\* no lookup is under way
AuthIdle ==
    /\ adDomain = <<>>
    /\ adVariant = <<>>
    /\ adLeadingOnly = TRUE
    /\ adCalled = FALSE
    /\ adScore = -1
    /\ adVariantScore = -1
    /\ adNorm = <<>>

\* get_domain_authority is called on the domain and on its re-spelling
LookupAuthority ==
    /\ ~adCalled
    /\ adCalled' = TRUE
    /\ adScore' = get_domain_authority(adDomain)
    /\ adVariantScore' = get_domain_authority(adVariant)
    /\ adNorm' = IF adDomain = NoneStr THEN <<>> ELSE normalized_domain(adDomain)
    /\ UNCHANGED <<adDomain, adVariant, adLeadingOnly>>
    /\ UNCHANGED notAuthVars

(***************************************************************************)
(* datetime.  A datetime is [wall, aware, offset]: the wall-clock reading  *)
(* in ticks, whether it carries a tzinfo, and the UTC offset of that       *)
(* tzinfo in ticks (0 when there is none).  None is NoneValue.             *)
(***************************************************************************)
NoneValue == [none |-> TRUE]

\* an exception that leaves a function instead of a value
Raised(kind) == [raised |-> kind]
IsRaised(x) == x \in {Raised("TypeError"), Raised("ValueError")}

TicksPerDay == 2

\* timedelta(days=n)
Days(n) == n * TicksPerDay

\* the UTC offset of the machine's local time zone, in ticks
LocalUtcOffset == 0

Naive(wall) == [wall |-> wall, aware |-> FALSE, offset |-> 0]
Aware(wall, offset) == [wall |-> wall, aware |-> TRUE, offset |-> offset]

\* the instant an aware datetime denotes
Instant(dt) == dt.wall - dt.offset

\* datetime.now() at instant utc: local wall clock, no tzinfo
DatetimeNow(utc) == Naive(utc + LocalUtcOffset)

\* datetime.now(tz) at instant utc
DatetimeNowIn(utc, offset) == Aware(utc + offset, offset)

\* dt.replace(tzinfo=other.tzinfo): same wall-clock reading, other's tzinfo
ReplaceTzinfo(dt, other) == [wall |-> dt.wall, aware |-> other.aware, offset |-> other.offset]

\* a - b in ticks, for two datetimes that both carry a tzinfo or both do not
\* (Python raises TypeError for a mixed pair)
DatetimeDiff(a, b) == IF a.aware THEN Instant(a) - Instant(b) ELSE a.wall - b.wall

\* Python refuses to subtract or order a datetime with tzinfo and one without
MixedTzinfo(a, b) == a.aware # b.aware

\* int(x / y): the quotient cut towards zero
IntQuotient(x, y) == IF x >= 0 THEN x \div y ELSE -((-x) \div y)

(***************************************************************************)
(* ranking/heuristics.py                                                   *)
(***************************************************************************)
\* a float product, rounded to the nearest hundredth (half up)
RoundMul(a, b) == (a * b + 50) \div 100

\* n / 2^k rounded to the nearest integer
RECURSIVE Pow2(_)
Pow2(k) == IF k = 0 THEN 1 ELSE 2 * Pow2(k - 1)
RoundHalve(n, k) == IF k = 0 THEN n ELSE (n + Pow2(k - 1)) \div Pow2(k)

\* 100 * 2^(-k/14) for k = 0..13, to the nearest hundredth: the decay over
\* k fourteenths of a half-life
Pow2NegFourteenths == <<100, 95, 91, 86, 82, 78, 74, 71, 67, 64, 61, 58, 55, 53>>

\* after this many half-lives the decayed score is below half a hundredth
MaxHalvings == 8

\* a line that falls from 1.0 to 0.5 over the first half-life and stays there
ExpDecay_Linear(age_ticks, halflife_days) ==
    LET halflife_ticks == Days(halflife_days)
    IN  IF age_ticks >= halflife_ticks THEN 50
        ELSE 100 - (50 * age_ticks) \div halflife_ticks

\* math.exp(-(math.log(2) / halflife_days) * age_days), lines 172-173, for
\* an age given in ticks; exact to the hundredth when the half-life in ticks
\* divides 14 (half-lives of 1 and 7 days)
ExpDecay(age_ticks, halflife_days) ==
    LET halflife_ticks == Days(halflife_days)
        halvings == age_ticks \div halflife_ticks
        fourteenths == ((age_ticks % halflife_ticks) * 14) \div halflife_ticks
    IN  IF halvings >= MaxHalvings THEN 0
        ELSE RoundHalve(Pow2NegFourteenths[fourteenths + 1], halvings)

Max(a, b) == IF a >= b THEN a ELSE b

\* lines 151-158: age_delta in ticks, for a published_at that is not None
age_delta(published_at, now) ==
    \* lines 152-155: the side without tzinfo takes the other's tzinfo
    LET now2 == IF published_at.aware /\ ~now.aware
                THEN ReplaceTzinfo(now, published_at) ELSE now
        pub2 == IF ~published_at.aware /\ now.aware
                THEN ReplaceTzinfo(published_at, now) ELSE published_at
    IN  DatetimeDiff(now2, pub2)

_calculate_recency_score(published_at, now, halflife_days) ==
    IF published_at = NoneValue THEN 30
    ELSE
        LET age_ticks == age_delta(published_at, now)
        IN  IF age_ticks < 0 THEN 100
            ELSE IF age_ticks = 0 THEN 100
            ELSE Max(ExpDecay(age_ticks, halflife_days), 1)

\* lines 66-68
total_weight(w) == w[1] + w[2] + w[3]
WeightsValid(w) == 99 <= total_weight(w) /\ total_weight(w) <= 101

\* a weighted sum that takes the authority term off instead of adding it
final_score_of_MinusAuthority(doc, now, w, halflife_days) ==
    ( RoundMul(w[1], _calculate_recency_score(doc.published_at, now, halflife_days))
    - RoundMul(w[2], get_domain_authority(doc.source_domain))
    + RoundMul(w[3], doc.raw_score) )

\* a weighted sum that uses the default weights whatever the call passed
final_score_of_DefaultWeights(doc, now, w, halflife_days) ==
    ( RoundMul(40, _calculate_recency_score(doc.published_at, now, halflife_days))
    + RoundMul(30, get_domain_authority(doc.source_domain))
    + RoundMul(30, doc.raw_score) )

\* lines 85-89: the weighted sum on the 0-100 scale, in points
final_score_of(doc, now, w, halflife_days) ==
    ( RoundMul(w[1], _calculate_recency_score(doc.published_at, now, halflife_days))
    + RoundMul(w[2], get_domain_authority(doc.source_domain))
    + RoundMul(w[3], doc.raw_score) )

\* lines 91-96.  obj is the position of the document in the input list: the
\* RankedDoc holds the Document object itself.
RankedDoc(doc, obj, score) ==
    [document |-> doc, obj |-> obj, final_score |-> score, rank |-> 0,
     heuristic_score |-> score]

\* a descending sort that puts x in front of the elements of equal key
InsertDescending_BeforeEqual(sorted, x) ==
    LET n == Cardinality({k \in 1..Len(sorted) : sorted[k].final_score > x.final_score})
    IN  SubSeq(sorted, 1, n) \o <<x>> \o SubSeq(sorted, n + 1, Len(sorted))

\* list.sort(key=final_score, reverse=True) keeps elements of equal key in
\* their original order: x goes after every element whose key is >= its own.
InsertDescending(sorted, x) ==
    LET n == Cardinality({k \in 1..Len(sorted) : sorted[k].final_score >= x.final_score})
    IN  SubSeq(sorted, 1, n) \o <<x>> \o SubSeq(sorted, n + 1, Len(sorted))

RECURSIVE SortedDescending(_)
SortedDescending(s) ==
    IF s = <<>> THEN <<>>
    ELSE InsertDescending(SortedDescending(SubSeq(s, 1, Len(s) - 1)), s[Len(s)])

\* a sort that keeps one entry per score
RECURSIVE SortedDescending_DropsEqual(_)
SortedDescending_DropsEqual(s) ==
    IF s = <<>> THEN <<>>
    ELSE LET rest == SortedDescending_DropsEqual(SubSeq(s, 1, Len(s) - 1))
             x == s[Len(s)]
         IN  IF \E k \in 1..Len(rest) : rest[k].final_score = x.final_score
             THEN rest
             ELSE InsertDescending(rest, x)

\* line 100
sort_scored_docs(scored_docs) == SortedDescending(scored_docs)

\* enumerate(scored_docs) without start=1
assign_ranks_FromZero(scored_docs) ==
    [k \in 1..Len(scored_docs) |-> [scored_docs[k] EXCEPT !.rank = k - 1]]

\* lines 103-104: enumerate(scored_docs, start=1)
assign_ranks(scored_docs) ==
    [k \in 1..Len(scored_docs) |-> [scored_docs[k] EXCEPT !.rank = k]]

\* what the call returns for given documents, weights, half-life and now
RankOutput(documents, w, halflife_days, now) ==
    assign_ranks(sort_scored_docs(
        [i \in 1..Len(documents) |->
            RankedDoc(documents[i], i, final_score_of(documents[i], now, w, halflife_days))]))

\* explain_score, lines 179-226: the parts of the text returned, or the
\* exception raised.  utc is the clock when the function runs.
explain_score(ranked_doc, recency_halflife_days, utc) ==
    LET doc == ranked_doc.document
        now == DatetimeNow(utc)
        recency_score == _calculate_recency_score(doc.published_at, now,
                                                  recency_halflife_days)
        authority_score == get_domain_authority(doc.source_domain)
        authority_tier == get_authority_tier(authority_score)
    IN  \* line 209: now - doc.published_at, now without tzinfo
        IF doc.published_at # NoneValue /\ MixedTzinfo(now, doc.published_at)
        THEN Raised("TypeError")
        ELSE [rank |-> ranked_doc.rank,
              score |-> ranked_doc.final_score,
              title |-> IF Len(doc.title) > 60
                        THEN SubSeq(doc.title, 1, 60) \o <<".", ".", ".">>
                        ELSE doc.title,
              domain |-> doc.source_domain,
              tier |-> authority_tier,
              authority |-> authority_score,
              age_str |-> IF doc.published_at # NoneValue
                          THEN [phrase |-> "days old",
                                days |-> IntQuotient(DatetimeDiff(now, doc.published_at),
                                                     TicksPerDay)]
                          ELSE [phrase |-> "unknown age"],
              recency |-> recency_score,
              \* doc.provider.value.upper()
              provider |-> IF doc.provider = "exa" THEN "EXA" ELSE "PERPLEXITY",
              provider_score |-> doc.raw_score]

(***************************************************************************)
(* Callers of rank_by_heuristics: the documents and weights tried          *)
(***************************************************************************)
MaxDocs == 3     \* longest document list ranked
MaxTicks == 2    \* ticks that may pass while one call runs
Day0 == 200      \* the instant at which the call starts

DEFAULT_HALFLIFE == 7
DefaultWeights == <<40, 30, 30>>

WeightChoices ==
    { DefaultWeights,
      <<50, 50, 50>>,      \* sum 1.5
      <<30, 30, 30>>,      \* sum 0.9
      <<41, 30, 30>>,      \* sum 1.01
      <<-50, 100, 50>> }   \* sum 1.0

Domain_anthropic == <<"a","n","t","h","r","o","p","i","c",".","c","o","m">>
Domain_openai    == <<"o","p","e","n","a","i",".","c","o","m">>
Domain_randomblog == <<"r","a","n","d","o","m","-","b","l","o","g",".","c","o","m">>
Domain_test      == <<"t","e","s","t",".","c","o","m">>

\* models/schemas.py, class Document
Document(id, title, url, snippet, published_at, published_online, published_issue, source_domain, author, provider, raw_score, embedding) ==
    [id |-> id, title |-> title, url |-> url, snippet |-> snippet,
     published_at |-> published_at, published_online |-> published_online,
     published_issue |-> published_issue, source_domain |-> source_domain,
     author |-> author, provider |-> provider, raw_score |-> raw_score,
     embedding |-> embedding]

\* a document as the ranker reads it: its date, domain and provider score
RankerDocument(published_at, source_domain, raw_score) ==
    Document(<<"1">>, <<"T">>, <<>>, <<>>, published_at, published_at, NoneValue,
             source_domain, NoneStr, "exa", raw_score, NoneValue)

DocumentChoices ==
    { RankerDocument(Naive(Day0 + 1),            Domain_anthropic,  95),
      RankerDocument(Aware(Day0 - 1, 0),         Domain_randomblog, 88),
      RankerDocument(NoneValue,                  Domain_openai,     100),
      RankerDocument(Naive(Day0 - Days(7)),      Domain_test,       80),
      RankerDocument(Naive(Day0 - Days(7)),      Domain_test,       81) }

RECURSIVE SeqsUpTo(_, _)
SeqsUpTo(S, n) ==
    IF n = 0 THEN {<<>>}
    ELSE LET shorter == SeqsUpTo(S, n - 1)
         IN  shorter \cup {Append(s, x) : s \in {t \in shorter : Len(t) = n - 1}, x \in S}

RankInit ==
    /\ rkDocuments \in SeqsUpTo(DocumentChoices, MaxDocs)
    /\ rkCallerDocs = rkDocuments
    /\ rkWeights \in WeightChoices
    /\ rkHalflife = DEFAULT_HALFLIFE
    /\ rkPc = "entry"
    /\ rkNow = NoneValue
    /\ rkNowReads = 0
    /\ rkScoredDocs = <<>>
    /\ rkOutcome = "running"
    /\ rkReturned = <<>>

\* no call is under way
RankIdle ==
    /\ rkDocuments = <<>>
    /\ rkCallerDocs = <<>>
    /\ rkWeights = DefaultWeights
    /\ rkHalflife = DEFAULT_HALFLIFE
    /\ rkPc = "idle"
    /\ rkNow = NoneValue
    /\ rkNowReads = 0
    /\ rkScoredDocs = <<>>
    /\ rkOutcome = "running"
    /\ rkReturned = <<>>

\* lines 63-72: the empty list is returned at once; then the weights are checked
RankEnter ==
    /\ rkPc = "entry"
    /\ IF rkDocuments = <<>>
       THEN /\ rkPc' = "done"
            /\ rkOutcome' = "returned"
            /\ rkReturned' = <<>>
       ELSE IF ~WeightsValid(rkWeights)
       THEN /\ rkPc' = "done"
            /\ rkOutcome' = "ValueError"
            /\ UNCHANGED rkReturned
       ELSE /\ rkPc' = "read_now"
            /\ UNCHANGED <<rkOutcome, rkReturned>>
    /\ UNCHANGED <<clock, rkDocuments, rkCallerDocs, rkWeights, rkHalflife, rkNow,
                   rkNowReads, rkScoredDocs>>
    /\ UNCHANGED notRankVars

\* lines 75-76
RankReadNow ==
    /\ rkPc = "read_now"
    /\ rkScoredDocs' = <<>>
    /\ rkNow' = DatetimeNow(clock)
    /\ rkNowReads' = rkNowReads + 1
    /\ rkPc' = "score"
    /\ UNCHANGED <<clock, rkDocuments, rkCallerDocs, rkWeights, rkHalflife, rkOutcome,
                   rkReturned>>
    /\ UNCHANGED notRankVars

\* an iteration that calls datetime.now() for its own document
RankScoreDoc_ResamplesNow ==
    /\ rkPc = "score"
    /\ Len(rkScoredDocs) < Len(rkDocuments)
    /\ LET i == Len(rkScoredDocs) + 1
           doc == rkDocuments[i]
       IN  rkScoredDocs' = Append(rkScoredDocs,
               RankedDoc(doc, i, final_score_of(doc, DatetimeNow(clock), rkWeights, rkHalflife)))
    /\ UNCHANGED <<clock, rkDocuments, rkCallerDocs, rkWeights, rkHalflife, rkPc, rkNow,
                   rkNowReads, rkOutcome, rkReturned>>
    /\ UNCHANGED notRankVars

\* lines 78-97: one iteration of the loop over documents
RankScoreDoc ==
    /\ rkPc = "score"
    /\ Len(rkScoredDocs) < Len(rkDocuments)
    /\ LET i == Len(rkScoredDocs) + 1
           doc == rkDocuments[i]
       IN  rkScoredDocs' = Append(rkScoredDocs,
               RankedDoc(doc, i, final_score_of(doc, rkNow, rkWeights, rkHalflife)))
    /\ UNCHANGED <<clock, rkDocuments, rkCallerDocs, rkWeights, rkHalflife, rkPc, rkNow,
                   rkNowReads, rkOutcome, rkReturned>>
    /\ UNCHANGED notRankVars

\* lines 99-106: the loop is over; sort, number, return
RankSortAndReturn ==
    /\ rkPc = "score"
    /\ Len(rkScoredDocs) = Len(rkDocuments)
    /\ rkScoredDocs' = assign_ranks(sort_scored_docs(rkScoredDocs))
    /\ rkReturned' = rkScoredDocs'
    /\ rkOutcome' = "returned"
    /\ rkPc' = "done"
    /\ UNCHANGED <<clock, rkDocuments, rkCallerDocs, rkWeights, rkHalflife, rkNow,
                   rkNowReads>>
    /\ UNCHANGED notRankVars

\* the wall clock moves on while the call runs
RankTick ==
    /\ rkPc \notin {"idle", "done"}
    /\ clock < Day0 + MaxTicks
    /\ clock' = clock + 1
    /\ UNCHANGED rankVars
    /\ UNCHANGED notRankVars

RankNext ==
    \/ RankEnter
    \/ RankReadNow
    \/ RankScoreDoc
    \/ RankSortAndReturn
    \/ RankTick

(***************************************************************************)
(* tools/normalize.py                                                      *)
(***************************************************************************)
Whitespace == {" ", "\t", "\n"}
Digits == {"0","1","2","3","4","5","6","7","8","9"}

MaxOfSet(S) == CHOOSE x \in S : \A y \in S : y <= x
MinOfSet(S) == CHOOSE x \in S : \A y \in S : x <= y

\* str.find(c) and str.rfind(c): 0-based index, -1 when c does not occur
StrFind(s, c) ==
    LET P == {i \in 1..Len(s) : s[i] = c} IN IF P = {} THEN -1 ELSE MinOfSet(P) - 1
StrRFind(s, c) ==
    LET P == {i \in 1..Len(s) : s[i] = c} IN IF P = {} THEN -1 ELSE MaxOfSet(P) - 1

\* str.rstrip()
RECURSIVE StrRStrip(_)
StrRStrip(s) ==
    IF s = <<>> \/ s[Len(s)] \notin Whitespace THEN s
    ELSE StrRStrip(SubSeq(s, 1, Len(s) - 1))

\* s[from:], from 0-based
StrFrom(s, from) == SubSeq(s, from + 1, Len(s))

\* str.split(sep) for a one-character sep
RECURSIVE StrSplit(_, _)
StrSplit(s, sep) ==
    LET i == StrFind(s, sep)
    IN  IF i = -1 THEN <<s>>
        ELSE <<SubSeq(s, 1, i)>> \o StrSplit(StrFrom(s, i + 1), sep)

Ellipsis == <<".", ".", ".">>
Unknown == <<"u","n","k","n","o","w","n">>
Localhost == <<"l","o","c","a","l","h","o","s","t">>

\* default of _truncate_text's max_length
MAX_SNIPPET_LENGTH == 1000

\* default of _clamp_future_date's max_future_days
MAX_FUTURE_DAYS == 14

\* a cut that reserves no room for the ellipsis
_truncate_text_NoReserve(text, max_length) ==
    IF Len(text) <= max_length THEN text
    ELSE StrRStrip(SubSeq(text, 1, max_length)) \o Ellipsis

_truncate_text(text, max_length) ==
    IF Len(text) <= max_length THEN text
    ELSE LET cut == SubSeq(text, 1, max_length - 3)
             last_space == StrRFind(cut, " ")
             truncated ==
                 \* last_space > (max_length - 3) * 0.8
                 IF 10 * last_space > 8 * (max_length - 3)
                 THEN SubSeq(cut, 1, last_space) ELSE cut
         IN  StrRStrip(truncated) \o Ellipsis

\* urllib.parse.urlparse, for URLs without leading blanks and without
\* ";params": [raises, scheme, netloc, path].  A scheme is a letter followed
\* by letters, digits, "+", "-" or "." up to the first ":"; a netloc follows
\* "//" and ends at "/", "?" or "#"; an unmatched "[" or "]" in the netloc
\* raises ValueError.
SchemeChars == UpperSet \cup LowerSet \cup Digits \cup {"+", "-", "."}

FirstOf(s, chars) ==
    LET P == {i \in 1..Len(s) : s[i] \in chars}
    IN  IF P = {} THEN Len(s) + 1 ELSE MinOfSet(P)

urlparse(url) ==
    LET colon == StrFind(url, ":")
        has_scheme == /\ colon > 0
                      /\ url[1] \in UpperSet \cup LowerSet
                      /\ \A i \in 1..colon : url[i] \in SchemeChars
        scheme == IF has_scheme THEN StrLower(SubSeq(url, 1, colon)) ELSE <<>>
        rest == IF has_scheme THEN StrFrom(url, colon + 1) ELSE url
        has_netloc == StartsWith(rest, <<"/", "/">>)
        after == StrFrom(rest, 2)
        netloc_end == FirstOf(after, {"/", "?", "#"})
        netloc == IF has_netloc THEN SubSeq(after, 1, netloc_end - 1) ELSE <<>>
        rest2 == IF has_netloc THEN SubSeq(after, netloc_end, Len(after)) ELSE rest
        path == SubSeq(rest2, 1, FirstOf(rest2, {"?", "#"}) - 1)
        brackets == {i \in 1..Len(netloc) : netloc[i] \in {"[", "]"}}
    IN  [raises |-> /\ brackets # {}
                    /\ ~(\E i, j \in brackets : netloc[i] = "[" /\ netloc[j] = "]"),
         scheme |-> scheme, netloc |-> netloc, path |-> path]

\* extract_domain that returns a single label whether or not the URL had a
\* scheme
extract_domain_AnySingleLabel(url) ==
    IF url = <<>> \/ url = NoneStr THEN Unknown
    ELSE LET parsed == urlparse(url)
         IN  IF parsed.raises THEN Unknown
             ELSE LET netloc_or_path ==
                          IF parsed.netloc # <<>> THEN parsed.netloc ELSE parsed.path
                  IN  IF netloc_or_path = <<>> THEN Unknown
                      ELSE LET hostname == StrRemoveAll(netloc_or_path, WwwDot)
                               parts == StrSplit(hostname, ".")
                               n == Len(parts)
                           IN  IF n >= 2
                               THEN parts[n - 1] \o <<".">> \o parts[n]
                               ELSE parts[1]

extract_domain(url) ==
    IF url = <<>> \/ url = NoneStr THEN Unknown
    ELSE LET parsed == urlparse(url)
         IN  IF parsed.raises THEN Unknown      \* except Exception
             ELSE LET netloc_or_path ==
                          IF parsed.netloc # <<>> THEN parsed.netloc ELSE parsed.path
                  IN  IF netloc_or_path = <<>> THEN Unknown
                      ELSE LET hostname == StrRemoveAll(netloc_or_path, WwwDot)
                               parts == StrSplit(hostname, ".")
                               n == Len(parts)
                           IN  IF n >= 2
                               THEN parts[n - 1] \o <<".">> \o parts[n]
                               ELSE IF parts[1] = Localhost \/ parsed.scheme # <<>>
                                    THEN parts[1]
                                    ELSE Unknown

\* A date string is written by its shape: [format, wall, offset], where wall
\* is the date and time it spells, offset the UTC offset it spells (0 when
\* it spells none).  Shapes:
\*   "date"            2025-01-04
\*   "seconds_Z"       2025-01-04T10:30:00Z
\*   "micros_Z"        2025-01-04T10:30:00.123Z
\*   "seconds_offset"  2025-01-04T10:30:00+05:30
\*   "micros_offset"   2025-01-04T10:30:00.123+05:30
\*   "iso_plain"       2025-01-04T10:30       (fromisoformat only)
\*   "iso_Z"           2025-01-04T10:30Z      (fromisoformat after Z -> +00:00)
\*   "empty"           the empty string
\*   "other"           anything else, e.g. Jan 4, 2025
DateString(format, wall, offset) == [format |-> format, wall |-> wall, offset |-> offset]

\* the list formats of _parse_date, by the shape each one accepts, and whether
\* strptime returns a datetime with tzinfo (%z) for it
ParseFormats ==
    << [accepts |-> "date",           aware |-> FALSE],     \* %Y-%m-%d
       [accepts |-> "seconds_Z",      aware |-> FALSE],     \* %Y-%m-%dT%H:%M:%SZ
       [accepts |-> "micros_Z",       aware |-> FALSE],     \* %Y-%m-%dT%H:%M:%S.%fZ
       [accepts |-> "seconds_offset", aware |-> TRUE],      \* %Y-%m-%dT%H:%M:%S%z
       [accepts |-> "micros_offset",  aware |-> TRUE] >>    \* %Y-%m-%dT%H:%M:%S.%f%z

_parse_date(date_str) ==
    IF date_str = NoneValue \/ date_str.format = "empty" THEN NoneValue
    ELSE LET matching == {i \in 1..Len(ParseFormats) :
                              ParseFormats[i].accepts = date_str.format}
         IN  IF matching # {}
             THEN IF ParseFormats[MinOfSet(matching)].aware
                  THEN Aware(date_str.wall, date_str.offset)
                  ELSE Naive(date_str.wall)
             \* datetime.fromisoformat(date_str.replace("Z", "+00:00"))
             ELSE IF date_str.format = "iso_plain" THEN Naive(date_str.wall)
             ELSE IF date_str.format = "iso_Z" THEN Aware(date_str.wall, 0)
             ELSE NoneValue

\* a comparison that also rejects the date on the threshold
DatetimeAfter_OrEqual(a, b) == IF a.aware THEN Instant(a) >= Instant(b) ELSE a.wall >= b.wall

\* a > b for two datetimes that both carry a tzinfo or both do not
DatetimeAfter(a, b) == IF a.aware THEN Instant(a) > Instant(b) ELSE a.wall > b.wall

\* a clamp that always compares with datetime.now(), tzinfo or not
_clamp_future_date_NaiveNow(date, max_future_days, utc) ==
    IF date = NoneValue THEN NoneValue
    ELSE LET now == DatetimeNow(utc)
             max_future_threshold == [now EXCEPT !.wall = @ + Days(max_future_days)]
         IN  IF MixedTzinfo(date, max_future_threshold) THEN Raised("TypeError")
             ELSE IF DatetimeAfter(date, max_future_threshold) THEN NoneValue
             ELSE date

\* utc is the clock when the function runs
_clamp_future_date(date, max_future_days, utc) ==
    IF date = NoneValue THEN NoneValue
    ELSE LET \* lines 225-229
             now == IF date.aware THEN DatetimeNowIn(utc, date.offset)
                    ELSE DatetimeNow(utc)
             max_future_threshold == [now EXCEPT !.wall = @ + Days(max_future_days)]
         IN  \* line 235: date > max_future_threshold
             IF MixedTzinfo(date, max_future_threshold) THEN Raised("TypeError")
             ELSE IF DatetimeAfter(date, max_future_threshold) THEN NoneValue
             ELSE date

\* models/schemas.py, class SearchResult
SearchResult(id, title, url, text, score, published_date, author, provider) ==
    [id |-> id, title |-> title, url |-> url, text |-> text, score |-> score,
     published_date |-> published_date, author |-> author, provider |-> provider]

\* a normalizer that fills author with the domain when there is no author
normalize_search_result_FillsAuthor(result, utc) ==
    LET raw_date == _parse_date(result.published_date)
        effective_date == _clamp_future_date(raw_date, MAX_FUTURE_DAYS, utc)
    IN  IF IsRaised(effective_date) THEN effective_date
        ELSE Document(result.id, result.title, result.url,
                      _truncate_text(result.text, MAX_SNIPPET_LENGTH),
                      effective_date, effective_date,
                      IF raw_date # effective_date THEN raw_date ELSE NoneValue,
                      extract_domain(result.url),
                      IF result.author = NoneStr THEN extract_domain(result.url)
                      ELSE result.author,
                      result.provider, result.score, NoneValue)

\* utc is the clock when the function runs
normalize_search_result(result, utc) ==
    LET raw_date == _parse_date(result.published_date)
        effective_date == _clamp_future_date(raw_date, MAX_FUTURE_DAYS, utc)
    IN  \* an exception of line 41 leaves the function
        IF IsRaised(effective_date) THEN effective_date
        ELSE Document(result.id, result.title, result.url,
                      _truncate_text(result.text, MAX_SNIPPET_LENGTH),
                      effective_date, effective_date,
                      IF raw_date # effective_date THEN raw_date ELSE NoneValue,
                      extract_domain(result.url), result.author, result.provider,
                      result.score, NoneValue)

(***************************************************************************)
(* Callers of normalize_batch: the records tried                           *)
(***************************************************************************)
MaxBatch == 3    \* longest list of records normalized

Url_blog_openai ==
    <<"h","t","t","p","s",":","/","/","b","l","o","g",".","o","p","e","n","a","i",
      ".","c","o","m","/","p","o","s","t">>
Url_www_techcrunch ==
    <<"h","t","t","p","s",":","/","/","W","W","W",".","T","e","c","h","C","r","u",
      "n","c","h",".","c","o","m","/","a">>
Url_not_a_url == <<"n","o","t","-","a","-","u","r","l">>

Text_short == <<"A","I"," ","n","e","w","s">>
\* 1200 characters, a blank at every 100th place and at places 995 to 997
Text_words == [i \in 1..1200 |-> IF i % 100 = 0 \/ i \in 995..997 THEN " " ELSE "y"]

SearchResultChoices ==
    { SearchResult(<<"1">>, <<"O">>, Url_blog_openai, Text_short, 92,
                   DateString("seconds_offset", Day0 - Days(2), 1), <<"J">>, "exa"),
      SearchResult(<<"2">>, <<"N">>, Url_not_a_url, Text_words, 50,
                   DateString("other", 0, 0), NoneStr, "perplexity"),
      SearchResult(<<"3">>, <<"T">>, Url_www_techcrunch, Text_short, 88,
                   DateString("date", Day0 + Days(14) + 1, 0), NoneStr, "exa"),
      SearchResult(<<"4">>, <<"E">>, <<>>, <<>>, 0,
                   NoneValue, NoneStr, "perplexity") }

NormInit ==
    /\ nbResults \in SeqsUpTo(SearchResultChoices, MaxBatch)
    /\ nbPc = "comprehension"
    /\ nbDocs = <<>>
    /\ nbReadings = <<>>
    /\ nbReturned = <<>>

\* no call is under way
NormIdle ==
    /\ nbResults = <<>>
    /\ nbPc = "idle"
    /\ nbDocs = <<>>
    /\ nbReadings = <<>>
    /\ nbReturned = <<>>

\* a comprehension that leaves out the records without a usable date
NormalizeOne_SkipsUndated ==
    /\ nbPc = "comprehension"
    /\ Len(nbReadings) < Len(nbResults)
    /\ LET doc == normalize_search_result(nbResults[Len(nbReadings) + 1], clock)
       IN  nbDocs' = IF doc.published_at = NoneValue THEN nbDocs ELSE Append(nbDocs, doc)
    /\ nbReadings' = Append(nbReadings, clock)
    /\ UNCHANGED <<clock, nbResults, nbPc, nbReturned>>
    /\ UNCHANGED notNormVars

\* line 68: the comprehension normalizes the next record
NormalizeOne ==
    /\ nbPc = "comprehension"
    /\ Len(nbReadings) < Len(nbResults)
    /\ nbDocs' = Append(nbDocs,
                        normalize_search_result(nbResults[Len(nbReadings) + 1], clock))
    /\ nbReadings' = Append(nbReadings, clock)
    /\ UNCHANGED <<clock, nbResults, nbPc, nbReturned>>
    /\ UNCHANGED notNormVars

\* line 68: the records are used up; the list is returned
NormalizeReturn ==
    /\ nbPc = "comprehension"
    /\ Len(nbReadings) = Len(nbResults)
    /\ nbReturned' = nbDocs
    /\ nbPc' = "done"
    /\ UNCHANGED <<clock, nbResults, nbDocs, nbReadings>>
    /\ UNCHANGED notNormVars

\* the wall clock moves on while the call runs
NormTick ==
    /\ nbPc = "comprehension"
    /\ clock < Day0 + MaxTicks
    /\ clock' = clock + 1
    /\ UNCHANGED normVars
    /\ UNCHANGED notNormVars

NormNext ==
    \/ NormalizeOne
    \/ NormalizeReturn
    \/ NormTick

(***************************************************************************)
(* Callers of extract_domain: the URLs tried, each a scheme part, a host    *)
(* prefix, a host and a tail                                                *)
(***************************************************************************)
UrlSchemes == { <<>>, <<"h","t","t","p",":","/","/">>, <<"H","T","T","P","S",":","/","/">> }
UrlPrefixes == { <<>>, <<"w","w","w",".">>, <<"W","W","W",".">>, <<"b","l","o","g",".">>, <<"a","w","w","w",".">> }
UrlHosts == { <<>>, <<"o","p","e","n","a","i",".","c","o","m">>, <<"O","p","e","n","A","I",".","C","O","M">>, <<"l","o","c","a","l","h","o","s","t">>, <<"x">>, <<".">> }
UrlTails == { <<>>, <<"/","p">>, <<":","8","0">>, <<"?","q">> }

UrlChoices ==
    { scheme \o prefix \o host \o tail :
        scheme \in UrlSchemes, prefix \in UrlPrefixes, host \in UrlHosts,
        tail \in UrlTails }

DomInit ==
    /\ edUrl \in UrlChoices
    /\ edPc = "call"
    /\ edDomain = <<>>

\* no call is under way
DomIdle ==
    /\ edUrl = <<>>
    /\ edPc = "idle"
    /\ edDomain = <<>>

\* normalize.py line 51: source_domain=extract_domain(result.url)
ExtractDomain ==
    /\ edPc = "call"
    /\ edDomain' = extract_domain(edUrl)
    /\ edPc' = "done"
    /\ UNCHANGED edUrl
    /\ UNCHANGED notDomVars

DomNext == ExtractDomain

(***************************************************************************)
(* Callers of _truncate_text: the texts tried, each a run of "y" of a given *)
(* length with blanks at some of the places around the cut                  *)
(***************************************************************************)
TextLengths == {0, 7, 999, 1000, 1001, 1003, 1250}
BlankPlaces == {798, 799, 996, 997, 998, 1000, 1001}

TextOf(len, blanks) == [i \in 1..len |-> IF i \in blanks THEN " " ELSE "y"]

TextChoices == { TextOf(len, blanks) : len \in TextLengths, blanks \in SUBSET BlankPlaces }

TruncInit ==
    /\ ttText \in TextChoices
    /\ ttPc = "call"
    /\ ttSnippet = <<>>

\* no call is under way
TruncIdle ==
    /\ ttText = <<>>
    /\ ttPc = "idle"
    /\ ttSnippet = <<>>

\* normalize.py line 47: snippet=_truncate_text(result.text)
TruncateText ==
    /\ ttPc = "call"
    /\ ttSnippet' = _truncate_text(ttText, MAX_SNIPPET_LENGTH)
    /\ ttPc' = "done"
    /\ UNCHANGED ttText
    /\ UNCHANGED notTruncVars

TruncNext == TruncateText

(***************************************************************************)
(* One record through the pipeline: normalize_search_result, then           *)
(* rank_by_heuristics on the one document, then explain_score               *)
(***************************************************************************)
\* what a date string can spell: a week ago, about now, around the 14-day
\* tolerance, a month ahead
DateWalls ==
    { Day0 - Days(7) - 1, Day0 - 1, Day0, Day0 + Days(MAX_FUTURE_DAYS) - 1,
      Day0 + Days(MAX_FUTURE_DAYS), Day0 + Days(MAX_FUTURE_DAYS) + 1,
      Day0 + Days(MAX_FUTURE_DAYS) + 2, Day0 + Days(30) }

\* the UTC offsets a date string can spell, in ticks: -12:00, +00:00, +12:00
DateOffsets == {-1, 0, 1}

DateStringChoices ==
    {NoneValue, DateString("empty", 0, 0), DateString("other", 0, 0)}
    \cup { DateString(f, w, 0) :
               f \in {"date", "seconds_Z", "micros_Z", "iso_plain", "iso_Z"},
               w \in DateWalls }
    \cup { DateString(f, w, o) :
               f \in {"seconds_offset", "micros_offset"},
               w \in DateWalls, o \in DateOffsets }

Url_bad_bracket == <<"h","t","t","p",":","/","/","[","x">>
Title_long == [i \in 1..61 |-> "t"]

\* the fields of a record other than its date
RecordChoices ==
    { SearchResult(<<"1">>, <<"O">>, Url_blog_openai, Text_short, 92,
                   NoneValue, <<"J">>, "exa"),
      SearchResult(<<"2">>, Title_long, Url_not_a_url, Text_words, 50,
                   NoneValue, NoneStr, "perplexity"),
      SearchResult(<<"3">>, <<>>, Url_bad_bracket, <<>>, 0,
                   NoneValue, NoneStr, "exa"),
      SearchResult(<<"4">>, <<"T">>, Url_www_techcrunch, Text_short, 100,
                   NoneValue, <<"K">>, "perplexity") }

PipeInit ==
    /\ plResult \in { [r EXCEPT !.published_date = d] :
                          r \in RecordChoices, d \in DateStringChoices }
    /\ plPc = "normalize"
    /\ plDoc = NoneValue
    /\ plNormAt = 0
    /\ plRanked = <<>>
    /\ plAge = <<>>
    /\ plExplained = NoneValue

\* no record is under way
PipeIdle ==
    /\ plResult = NoneValue
    /\ plPc = "idle"
    /\ plDoc = NoneValue
    /\ plNormAt = 0
    /\ plRanked = <<>>
    /\ plAge = <<>>
    /\ plExplained = NoneValue

\* normalize_search_result(result); an exception ends the pipeline
PipeNormalize ==
    /\ plPc = "normalize"
    /\ plDoc' = normalize_search_result(plResult, clock)
    /\ plNormAt' = clock
    /\ plPc' = IF IsRaised(plDoc') THEN "done" ELSE "rank"
    /\ UNCHANGED <<clock, plResult, plRanked, plAge, plExplained>>
    /\ UNCHANGED notPipeVars

\* rank_by_heuristics([doc]) with the default weights and half-life; plAge
\* records the age_delta of heuristics.py line 158
PipeRank ==
    /\ plPc = "rank"
    /\ plRanked' = RankOutput(<<plDoc>>, DefaultWeights, DEFAULT_HALFLIFE,
                              DatetimeNow(clock))
    /\ plAge' = IF plDoc.published_at = NoneValue THEN <<>>
                ELSE <<age_delta(plDoc.published_at, DatetimeNow(clock))>>
    /\ plPc' = "explain"
    /\ UNCHANGED <<clock, plResult, plDoc, plNormAt, plExplained>>
    /\ UNCHANGED notPipeVars

\* explain_score(ranked[0])
PipeExplain ==
    /\ plPc = "explain"
    /\ plExplained' = explain_score(plRanked[1], DEFAULT_HALFLIFE, clock)
    /\ plPc' = "done"
    /\ UNCHANGED <<clock, plResult, plDoc, plNormAt, plRanked, plAge>>
    /\ UNCHANGED notPipeVars

\* the wall clock moves on between and before the steps
PipeTick ==
    /\ plPc \in {"normalize", "rank", "explain"}
    /\ clock < Day0 + MaxTicks
    /\ clock' = clock + 1
    /\ UNCHANGED pipeVars
    /\ UNCHANGED notPipeVars

PipeNext ==
    \/ PipeNormalize
    \/ PipeRank
    \/ PipeExplain
    \/ PipeTick

(***************************************************************************)
(* Callers of _calculate_recency_score: publication dates from a day ahead *)
(* of now back to MaxAgeDays, with and without tzinfo, and None             *)
(***************************************************************************)
MaxAgeDays == 30

\* a half-life the table of ExpDecay is exact for
HalflifeChoices == {1, DEFAULT_HALFLIFE}

PublishedChoices ==
    {NoneValue}
    \cup {Naive(Day0 - a) : a \in -Days(1)..Days(MaxAgeDays)}
    \cup {Aware(Day0 - a, 1) : a \in -Days(1)..Days(MaxAgeDays)}

RecInit ==
    /\ rcPublished \in PublishedChoices
    /\ rcNow = DatetimeNow(Day0)
    /\ rcHalflife \in HalflifeChoices
    /\ rcPc = "call"
    /\ rcScore = 0

\* no call is under way
RecIdle ==
    /\ rcPublished = NoneValue
    /\ rcNow = NoneValue
    /\ rcHalflife = 0
    /\ rcPc = "idle"
    /\ rcScore = 0

\* heuristics.py line 80: recency = _calculate_recency_score(doc.published_at,
\* now, recency_halflife_days)
CalculateRecency ==
    /\ rcPc = "call"
    /\ rcScore' = _calculate_recency_score(rcPublished, rcNow, rcHalflife)
    /\ rcPc' = "done"
    /\ UNCHANGED <<rcPublished, rcNow, rcHalflife>>
    /\ UNCHANGED notRecVars

RecNext == CalculateRecency

(***************************************************************************)
(* app.py: the job store, the background task and the event streams.  The  *)
(* event loop runs one coroutine at a time and switches only at an await    *)
(* or a yield, so every action is the code between two such points.         *)
(***************************************************************************)
MaxStreams == 2    \* streams opened on the job

Streams == 1..MaxStreams

\* the job_id of line 201
JobId == 1

\* what an awaited call hands back: a value, or an exception with its str()
Returned(value) == [raised |-> FALSE, value |-> value]
Error(kind, message) == [raised |-> TRUE, kind |-> kind, message |-> message]

\* class RetrieveRequest, lines 30-35
NumResultsMin == 5
RetrieveRequest(user_id, num_results) == [user_id |-> user_id, query |-> NoneValue, num_results |-> num_results]

\* lines 204-209.  assigned is no key of the dict: it keeps, in order, the
\* values the status key has been given.
NewJob(utc) ==
    [status |-> "pending", events |-> <<>>, result |-> NoneValue, created_at |-> utc,
     assigned |-> <<"pending">>]

set_status(job, status) == [job EXCEPT !.status = status, !.assigned = Append(@, status)]

\* lines 59-65
add_event(job, event_type, data, utc) ==
    [job EXCEPT !.events = Append(@, [event |-> event_type, data |-> data, timestamp |-> utc])]

\* lines 143-145
job_failed(job, e, utc) ==
    add_event(set_status(job, "failed"), "error", [message |-> <<e.message>>], utc)

\* lines 67-78, up to the await of asyncio.gather; exa_key and perplexity_key
\* say whether the API key of the client is there (exa.py lines 51-56,
\* perplexity.py lines 46-51)
run_to_gather(job, exa_key, perplexity_key, utc) ==
    LET j1 == set_status(job, "running")
        j2 == add_event(j1, "started", [message |-> <<"Retrieval job started">>], utc)
        j3 == add_event(j2, "progress",
                        [step |-> "search", message |-> <<"Searching Exa and Perplexity...">>], utc)
    IN  IF ~exa_key
        THEN job_failed(j3, Error("ValueError", "EXA_API_KEY must be provided as argument or environment variable"), utc)
        ELSE IF ~perplexity_key
        THEN job_failed(j3, Error("ValueError", "PERPLEXITY_SEARCH_API_KEY must be provided as argument or environment variable"), utc)
        ELSE j3

\* normalize.py line 68
normalize_batch(results, utc) ==
    [i \in 1..Len(results) |-> normalize_search_result(results[i], utc)]

Min(a, b) == IF a <= b THEN a ELSE b

\* database/utils.py lines 150-196, the fields taken over from the RankedDoc
ranked_doc_to_story(ranked_doc, user_id, utc) ==
    [id |-> ranked_doc.document.id,
     title |-> ranked_doc.document.title,
     url |-> ranked_doc.document.url,
     source_domain |-> ranked_doc.document.source_domain,
     author |-> ranked_doc.document.author,
     published_at |-> ranked_doc.document.published_at,
     final_score |-> ranked_doc.final_score,
     rank |-> ranked_doc.rank,
     provider |-> ranked_doc.document.provider,
     raw_score |-> ranked_doc.document.raw_score,
     user_id |-> user_id,
     retrieved_at |-> utc,
     added_to_brief_at |-> utc]

\* lines 121-127: the stories are stored one by one; store_ok[i] says
\* whether create_story returned for the i-th story.  create_story has no
\* await inside, so the loop runs without a switch.
RECURSIVE store_stories(_, _, _, _, _)
store_stories(job, story_ids, stories, store_ok, utc) ==
    LET i == Len(stories)
    IN  IF i = 0 THEN [job |-> job, story_ids |-> story_ids]
        ELSE LET before == store_stories(job, story_ids, SubSeq(stories, 1, i - 1), store_ok, utc)
             IN  IF store_ok[i]
                 THEN [job |-> before.job, story_ids |-> Append(before.story_ids, stories[i].id)]
                 ELSE [job |-> add_event(before.job, "warning",
                                         [message |-> <<"Failed to store story: ", "Failed to create story">>], utc),
                       story_ids |-> before.story_ids]

\* lines 85-96: the list a search contributes
search_results(task) == IF task.raised THEN <<>> ELSE task.value

\* a task that lets the exception of a provider leave the gather
after_gather_FailsWithProvider(job, request, exa_task, perplexity_task, documents, ranked_docs, supabase_env, store_ok, utc) ==
    IF exa_task.raised THEN job_failed(job, exa_task, utc)
    ELSE IF perplexity_task.raised THEN job_failed(job, perplexity_task, utc)
    ELSE add_event(
             [set_status(job, "completed") EXCEPT
                 !.result = [story_ids |-> <<>>, total_results |-> 0, user_id |-> request.user_id]],
             "completed", [message |-> <<"Retrieval job completed successfully">>, story_count |-> 0], utc)

\* a task that marks the job completed and leaves the result for later
after_gather_NoResult(job, request, exa_task, perplexity_task, documents, ranked_docs, supabase_env, store_ok, utc) ==
    add_event(set_status(job, "completed"),
              "completed", [message |-> <<"Retrieval job completed successfully">>, story_count |-> 0], utc)

\* a task that reports neither completion nor failure in the event log
after_gather_NoTerminalEvent(job, request, exa_task, perplexity_task, documents, ranked_docs, supabase_env, store_ok, utc) ==
    IF supabase_env
    THEN [set_status(job, "completed") EXCEPT
             !.result = [story_ids |-> <<>>, total_results |-> 0, user_id |-> request.user_id]]
    ELSE set_status(job, "failed")

\* lines 84-145, from the return of asyncio.gather to the end of the task.
\* exa_task and perplexity_task are what gather returned for the two
\* searches, documents is what normalize_batch returned at line 104,
\* ranked_docs what rank_by_heuristics returned at line 109, supabase_env
\* says whether the Supabase URL is set (supabase_client.py lines 69-75).
after_gather(job, request, exa_task, perplexity_task, documents, ranked_docs, supabase_env, store_ok, utc) ==
    LET j1 == IF exa_task.raised
              THEN add_event(job, "warning",
                             [message |-> <<"Exa search failed: ", exa_task.message>>], utc)
              ELSE job
        exa_results == search_results(exa_task)
        j2 == IF perplexity_task.raised
              THEN add_event(j1, "warning",
                             [message |-> <<"Perplexity search failed: ", perplexity_task.message>>], utc)
              ELSE j1
        perplexity_results == search_results(perplexity_task)
        total_results == Len(exa_results) + Len(perplexity_results)
        j3 == add_event(j2, "progress",
                        [step |-> "search", message |-> <<"Retrieved ", total_results, " results">>], utc)
        j4 == add_event(j3, "progress",
                        [step |-> "normalize", message |-> <<"Normalizing results...">>], utc)
        j5 == add_event(j4, "progress",
                        [step |-> "normalize",
                         message |-> <<"Normalized to ", Len(documents), " documents">>], utc)
        j6 == add_event(j5, "progress",
                        [step |-> "rank", message |-> <<"Ranking documents...">>], utc)
        j7 == add_event(j6, "progress",
                        [step |-> "rank", message |-> <<"Ranked ", Len(ranked_docs), " documents">>], utc)
        j8 == add_event(j7, "progress",
                        [step |-> "store", message |-> <<"Storing results...">>], utc)
        stories == [i \in 1..Min(Len(ranked_docs), request.num_results) |->
                       ranked_doc_to_story(ranked_docs[i], request.user_id, utc)]
        stored == store_stories(j8, <<>>, stories, store_ok, utc)
        j9 == add_event(stored.job, "progress",
                        [step |-> "store",
                         message |-> <<"Stored ", Len(stored.story_ids), " stories">>], utc)
        j10 == [set_status(j9, "completed") EXCEPT
                   !.result = [story_ids |-> stored.story_ids,
                               total_results |-> Len(stories),
                               user_id |-> request.user_id]]
    IN  IF \E i \in 1..Len(documents) : IsRaised(documents[i])
        THEN job_failed(j4, Error("Exception", "normalize_search_result"), utc)
        ELSE IF ~supabase_env
        THEN job_failed(j8, Error("ValueError", "Supabase URL must be provided or set in NEXT_PUBLIC_SUPABASE_URL/SUPABASE_URL"), utc)
        ELSE add_event(j10, "completed",
                       [message |-> <<"Retrieval job completed successfully">>,
                        story_count |-> Len(stories)], utc)

\* a generator that looks at the status before it hands out the events
event_generator_resume_StatusFirst(pc, sent_events, job) ==
    LET sent == IF pc = "yielded" THEN sent_events + 1 ELSE sent_events
    IN  IF pc = "result"
        THEN [pc |-> "closed", sent_events |-> sent, item |-> <<>>]
        ELSE IF job.status = "completed"
        THEN [pc |-> "result", sent_events |-> sent,
              item |-> <<[event |-> "result", data |-> job.result]>>]
        ELSE IF job.status = "failed"
        THEN [pc |-> "closed", sent_events |-> sent, item |-> <<>>]
        ELSE IF sent < Len(job.events)
        THEN [pc |-> "yielded", sent_events |-> sent,
              item |-> <<[event |-> job.events[sent + 1].event,
                          data |-> job.events[sent + 1].data]>>]
        ELSE [pc |-> "sleeping", sent_events |-> sent, item |-> <<>>]

\* a generator that ends only for a completed job
event_generator_resume_WaitsForCompleted(pc, sent_events, job) ==
    LET sent == IF pc = "yielded" THEN sent_events + 1 ELSE sent_events
    IN  IF pc = "result"
        THEN [pc |-> "closed", sent_events |-> sent, item |-> <<>>]
        ELSE IF sent < Len(job.events)
        THEN [pc |-> "yielded", sent_events |-> sent,
              item |-> <<[event |-> job.events[sent + 1].event,
                          data |-> job.events[sent + 1].data]>>]
        ELSE IF job.status = "completed"
        THEN [pc |-> "result", sent_events |-> sent,
              item |-> <<[event |-> "result", data |-> job.result]>>]
        ELSE [pc |-> "sleeping", sent_events |-> sent, item |-> <<>>]

\* event_generator, lines 236-264, from the point pc where it is suspended
\* to the next yield, sleep or end: what it hands to the client (item), where
\* it is suspended next, and sent_events there.  job is jobs[job_id] as it is
\* now: job and events of lines 241-242 are the dict and the list the task
\* writes to.
event_generator_resume(pc, sent_events, job) ==
    LET \* line 251 runs when the generator is resumed after the yield of line 247
        sent == IF pc = "yielded" THEN sent_events + 1 ELSE sent_events
    IN  IF pc = "result"                              \* line 261, break
        THEN [pc |-> "closed", sent_events |-> sent, item |-> <<>>]
        ELSE IF sent < Len(job.events)                \* lines 245-250
        THEN [pc |-> "yielded", sent_events |-> sent,
              item |-> <<[event |-> job.events[sent + 1].event,
                          data |-> job.events[sent + 1].data]>>]
        ELSE IF job.status \in {"completed", "failed"}   \* line 254
        THEN IF job.status = "completed"
             THEN [pc |-> "result", sent_events |-> sent,
                   item |-> <<[event |-> "result", data |-> job.result]>>]
             ELSE [pc |-> "closed", sent_events |-> sent, item |-> <<>>]
        ELSE [pc |-> "sleeping", sent_events |-> sent, item |-> <<>>]   \* line 264

(***************************************************************************)
(* Callers of the job layer: one POST /retrieve, what the providers and    *)
(* the database do, and GET /stream/{job_id} from MaxStreams clients        *)
(***************************************************************************)
RequestChoices == {RetrieveRequest("u1", NumResultsMin)}

ExaRecord == CHOOSE r \in SearchResultChoices : r.id = <<"1">>
PerplexityRecord == CHOOSE r \in SearchResultChoices : r.id = <<"2">>

\* what ExaClient.search hands to gather (exa.py lines 93, 107, 110)
ExaOutcomes ==
    { Returned(<<>>), Returned(<<ExaRecord>>),
      Error("Exception", "Exa search failed: Rate limit exceeded") }

\* what PerplexityClient.search hands to gather (perplexity.py lines 89, 94)
PerplexityOutcomes ==
    { Returned(<<>>), Returned(<<PerplexityRecord>>),
      Error("Exception", "Perplexity search failed: timeout") }

\* the stories of a task whose searches came back with these outcomes
StoryCount(exa_task, perplexity_task) ==
    Len(search_results(exa_task)) + Len(search_results(perplexity_task))

JobInit ==
    /\ jobs = <<>>
    /\ jbPc = "none"
    /\ jbRequest = NoneValue
    /\ jbTasks = <<>>
    /\ stPc = [s \in Streams |-> "unopened"]
    /\ stSent = [s \in Streams |-> 0]
    /\ stOut = [s \in Streams |-> <<>>]

\* no job store is under observation
JobIdle ==
    /\ jobs = <<>>
    /\ jbPc = "idle"
    /\ jbRequest = NoneValue
    /\ jbTasks = <<>>
    /\ stPc = <<>>
    /\ stSent = <<>>
    /\ stOut = <<>>

\* POST /retrieve, lines 191-218
StartRetrieval ==
    /\ jbPc = "none"
    /\ \E request \in RequestChoices : jbRequest' = request
    /\ jobs' = [job_id \in {JobId} |-> NewJob(clock)]
    /\ jbPc' = "scheduled"
    /\ UNCHANGED <<jbTasks, stPc, stSent, stOut>>
    /\ UNCHANGED notJobVars

\* process_retrieval_job from its start to the await of line 78, or to its
\* end when a client cannot be built
JobRunToGather ==
    /\ jbPc = "scheduled"
    /\ \E exa_key, perplexity_key \in BOOLEAN :
           jobs' = [jobs EXCEPT ![JobId] = run_to_gather(@, exa_key, perplexity_key, clock)]
    /\ jbPc' = IF jobs'[JobId].status = "failed" THEN "returned" ELSE "gather"
    /\ UNCHANGED <<jbRequest, jbTasks, stPc, stSent, stOut>>
    /\ UNCHANGED notJobVars

\* process_retrieval_job from the return of gather to its end: documents
\* and ranked_docs are the lists of lines 104 and 109
JobAfterGather ==
    /\ jbPc = "gather"
    /\ \E exa_task \in ExaOutcomes, perplexity_task \in PerplexityOutcomes, supabase_env \in BOOLEAN :
         \E store_ok \in [1..StoryCount(exa_task, perplexity_task) -> BOOLEAN] :
           \E documents \in {normalize_batch(search_results(exa_task) \o search_results(perplexity_task), clock)} :
             \E ranked_docs \in {RankOutput(documents, DefaultWeights, DEFAULT_HALFLIFE, DatetimeNow(clock))} :
               /\ jobs' = [jobs EXCEPT ![JobId] =
                              after_gather(@, jbRequest, exa_task, perplexity_task,
                                           documents, ranked_docs,
                                           supabase_env, store_ok, clock)]
               /\ jbTasks' = <<exa_task, perplexity_task>>
    /\ jbPc' = "returned"
    /\ UNCHANGED <<jbRequest, stPc, stSent, stOut>>
    /\ UNCHANGED notJobVars

\* GET /stream/{job_id}, lines 221-266, for the job_id of the job: 404 while
\* the job is not in the store, else the generator is made.  The streams are
\* numbered in the order they are opened.
StreamOpen(s) ==
    /\ stPc[s] = "unopened"
    /\ \A r \in 1..(s - 1) : stPc[r] # "unopened"
    /\ stPc' = [stPc EXCEPT ![s] = IF JobId \in DOMAIN jobs THEN "opened" ELSE "not_found"]
    /\ UNCHANGED <<jobs, jbPc, jbRequest, jbTasks, stSent, stOut>>
    /\ UNCHANGED notJobVars

\* the generator of stream s runs to its next yield, sleep or end
StreamResume(s) ==
    /\ stPc[s] \in {"opened", "yielded", "sleeping", "result"}
    /\ LET next == event_generator_resume(stPc[s], stSent[s], jobs[JobId])
       IN  /\ stPc' = [stPc EXCEPT ![s] = next.pc]
           /\ stSent' = [stSent EXCEPT ![s] = next.sent_events]
           /\ stOut' = [stOut EXCEPT ![s] = @ \o next.item]
    /\ UNCHANGED <<jobs, jbPc, jbRequest, jbTasks>>
    /\ UNCHANGED notJobVars

StreamOpenSome == \E s \in Streams : StreamOpen(s)
StreamResumeSome == \E s \in Streams : StreamResume(s)

\* the streams of the runs that are checked for progress; a stream reads the
\* job and writes only its own position, so the streams do not affect one
\* another
MaxLiveStreams == 1

LiveStreams == 1..MaxLiveStreams

StreamOpenLive == \E s \in LiveStreams : StreamOpen(s)

JobLiveNext ==
    \/ StartRetrieval
    \/ JobRunToGather
    \/ JobAfterGather
    \/ StreamOpenLive
    \/ StreamResumeSome

JobNext ==
    \/ StartRetrieval
    \/ JobRunToGather
    \/ JobAfterGather
    \/ StreamOpenSome
    \/ StreamResumeSome

(***************************************************************************)
(* tools/exa.py: ExaClient.search                                          *)
(***************************************************************************)
\* lines 26-31
RateLimitPhrases ==
    { <<"r","a","t","e"," ","l","i","m","i","t">>,
      <<"t","o","o"," ","m","a","n","y"," ","r","e","q","u","e","s","t","s">>,
      <<"4","2","9">>,
      <<"q","u","o","t","a"," ","e","x","c","e","e","d","e","d">> }

\* _is_rate_limit_error, lines 23-31; error_str is str(error)
_is_rate_limit_error(error_str) ==
    \E phrase \in RateLimitPhrases : Contains(StrLower(error_str), phrase)

\* line 65: max_retries: int = 3
DEFAULT_MAX_RETRIES == 3

\* a loop that makes one attempt more than max_retries
attempts_left_OneMore(attempt, max_retries) == attempt <= max_retries

\* line 83: for attempt in range(max_retries)
attempts_left(attempt, max_retries) == attempt < max_retries

\* a test that waits after the last attempt as well
should_retry_OnLastAttempt(error_str, attempt, max_retries) ==
    _is_rate_limit_error(error_str)

\* line 99
should_retry(error_str, attempt, max_retries) ==
    _is_rate_limit_error(error_str) /\ attempt < max_retries - 1

\* line 101: 2 ** (attempt + 1)
wait_time(attempt) == Pow2(attempt + 1)

\* the keys _transform_response reads with item[...], lines 173-177
RequiredKeys == {"id", "title", "url", "text", "score"}

\* dict.get(key): None for a key that is not there
DictGetOrNone(item, key) == IF key \in DOMAIN item THEN item[key] ELSE NoneValue

\* _transform_response, lines 160-184: the list of SearchResult, or the
\* KeyError of the first item that lacks a key
_transform_response(response) ==
    LET \* line 171: response.get("results", [])
        items == IF "results" \in DOMAIN response THEN response.results ELSE <<>>
    IN  IF \E i \in 1..Len(items) : ~(RequiredKeys \subseteq DOMAIN items[i])
        THEN Error("KeyError", <<"'","i","d","'">>)
        ELSE Returned([i \in 1..Len(items) |->
                 SearchResult(items[i].id, items[i].title, items[i].url, items[i].text,
                              items[i].score, DictGetOrNone(items[i], "publishedDate"),
                              DictGetOrNone(items[i], "author"), "exa")])

(***************************************************************************)
(* Callers of ExaClient.search: what _call_exa_api does at each attempt    *)
(***************************************************************************)
MaxRetriesTried == 4    \* largest max_retries passed

Msg_rate_limit == <<"A","P","I"," ","E","r","r","o","r",":"," ","R","a","t","e"," ","l","i","m","i","t"," ","e","x","c","e","e","d","e","d">>
Msg_429 == <<"H","T","T","P"," ","4","2","9">>
Msg_too_many == <<"T","o","o"," ","M","a","n","y"," ","R","e","q","u","e","s","t","s">>
Msg_quota == <<"Q","u","o","t","a"," ","E","x","c","e","e","d","e","d">>
Msg_timeout == <<"t","i","m","e","o","u","t">>

ApiErrors ==
    {Error("Exception", m) : m \in {Msg_rate_limit, Msg_429, Msg_too_many, Msg_quota, Msg_timeout}}

Item_full ==
    [id |-> <<"1">>, title |-> <<"O">>, url |-> Url_blog_openai, text |-> Text_short,
     score |-> 92, publishedDate |-> DateString("date", Day0 - Days(2), 0)]
Item_no_id == [title |-> <<"O">>, url |-> Url_blog_openai, text |-> Text_short, score |-> 92]

ApiResponses ==
    { Returned([results |-> <<>>]),
      Returned([results |-> <<Item_full>>]),
      Returned([results |-> <<Item_no_id>>]) }

ExaInit ==
    /\ exMaxRetries \in 0..MaxRetriesTried
    /\ exPc = "enter"
    /\ exAttempt = 0
    /\ exLog = <<>>
    /\ exLastError = NoneValue
    /\ exOutcome = NoneValue

\* no call is under way
ExaIdle ==
    /\ exMaxRetries = 0
    /\ exPc = "idle"
    /\ exAttempt = 0
    /\ exLog = <<>>
    /\ exLastError = NoneValue
    /\ exOutcome = NoneValue

\* lines 83-86 and 110, from the loop head: the next call of the API is
\* made, or the loop is over and the error of line 110 is raised
ExaLoopHead(attempt) ==
    IF attempts_left(attempt, exMaxRetries)
    THEN /\ exPc' = "api"
         /\ exLog' = Append(exLog, [op |-> "call"])
         /\ exOutcome' = exOutcome
    ELSE /\ exPc' = "done"
         /\ exLog' = exLog
         /\ exOutcome' = Error("Exception",
                               <<"Exa search failed after ", exMaxRetries, " attempts: ">>
                               \o (IF exLastError = NoneValue THEN NoneStr
                                   ELSE exLastError.message))

\* search is called: lines 82-86
ExaEnter ==
    /\ exPc = "enter"
    /\ exAttempt' = 0
    /\ ExaLoopHead(0)
    /\ UNCHANGED <<exMaxRetries, exLastError>>
    /\ UNCHANGED notExaVars

\* the awaited _call_exa_api comes back with a response: lines 86-93, and
\* lines 95-107 when _transform_response raises
ExaApiReturns ==
    /\ exPc = "api"
    /\ \E response \in ApiResponses :
         LET results == _transform_response(response.value)
         IN  IF ~results.raised
             THEN /\ exOutcome' = results
                  /\ exLog' = Append(exLog, [op |-> "response"])
                  /\ exPc' = "done"
                  /\ UNCHANGED exLastError
             ELSE /\ exLastError' = results
                  /\ IF should_retry(results.message, exAttempt, exMaxRetries)
                     THEN /\ exLog' = exLog \o <<[op |-> "error", error |-> results],
                                                 [op |-> "sleep", seconds |-> wait_time(exAttempt)]>>
                          /\ exPc' = "sleep"
                          /\ UNCHANGED exOutcome
                     ELSE /\ exLog' = Append(exLog, [op |-> "error", error |-> results])
                          /\ exOutcome' = Error("Exception",
                                                <<"Exa search failed: ">> \o results.message)
                          /\ exPc' = "done"
    /\ UNCHANGED <<exMaxRetries, exAttempt>>
    /\ UNCHANGED notExaVars

\* the awaited _call_exa_api raises: lines 95-107
ExaApiRaises ==
    /\ exPc = "api"
    /\ \E e \in ApiErrors :
         /\ exLastError' = e
         /\ IF should_retry(e.message, exAttempt, exMaxRetries)
            THEN /\ exLog' = exLog \o <<[op |-> "error", error |-> e],
                                        [op |-> "sleep", seconds |-> wait_time(exAttempt)]>>
                 /\ exPc' = "sleep"
                 /\ UNCHANGED exOutcome
            ELSE /\ exLog' = Append(exLog, [op |-> "error", error |-> e])
                 /\ exOutcome' = Error("Exception", <<"Exa search failed: ">> \o e.message)
                 /\ exPc' = "done"
    /\ UNCHANGED <<exMaxRetries, exAttempt>>
    /\ UNCHANGED notExaVars

\* asyncio.sleep returns: line 104, continue, and the loop head
ExaWake ==
    /\ exPc = "sleep"
    /\ exAttempt' = exAttempt + 1
    /\ ExaLoopHead(exAttempt + 1)
    /\ UNCHANGED <<exMaxRetries, exLastError>>
    /\ UNCHANGED notExaVars

ExaNext ==
    \/ ExaEnter
    \/ ExaApiReturns
    \/ ExaApiRaises
    \/ ExaWake

(***************************************************************************)
(* Specifications                                                          *)
(***************************************************************************)
AuthNext == LookupAuthority

AuthStart ==
    AuthInit /\ clock = Day0 /\ RankIdle /\ NormIdle /\ DomIdle /\ TruncIdle /\ PipeIdle
    /\ RecIdle /\ JobIdle /\ ExaIdle

\* get_domain_authority called on every domain of AuthInputs and its re-spellings
SpecAuth == AuthStart /\ [][AuthNext]_vars

RankStart ==
    RankInit /\ clock = Day0 /\ AuthIdle /\ NormIdle /\ DomIdle /\ TruncIdle /\ PipeIdle
    /\ RecIdle /\ JobIdle /\ ExaIdle

\* one call of rank_by_heuristics while the clock runs
SpecRank == RankStart /\ [][RankNext]_vars

NormStart ==
    NormInit /\ clock = Day0 /\ AuthIdle /\ RankIdle /\ DomIdle /\ TruncIdle /\ PipeIdle
    /\ RecIdle /\ JobIdle /\ ExaIdle

\* one call of normalize_batch while the clock runs
SpecNorm == NormStart /\ [][NormNext]_vars

DomStart ==
    DomInit /\ clock = Day0 /\ AuthIdle /\ RankIdle /\ NormIdle /\ TruncIdle /\ PipeIdle
    /\ RecIdle /\ JobIdle /\ ExaIdle

\* extract_domain called on every URL of UrlChoices
SpecDomain == DomStart /\ [][DomNext]_vars

TruncStart ==
    TruncInit /\ clock = Day0 /\ AuthIdle /\ RankIdle /\ NormIdle /\ DomIdle /\ PipeIdle
    /\ RecIdle /\ JobIdle /\ ExaIdle

\* _truncate_text called on every text of TextChoices
SpecTrunc == TruncStart /\ [][TruncNext]_vars

PipeStart ==
    PipeInit /\ clock = Day0 /\ AuthIdle /\ RankIdle /\ NormIdle /\ DomIdle /\ TruncIdle
    /\ RecIdle /\ JobIdle /\ ExaIdle

\* one record normalized, ranked and explained while the clock runs
SpecPipe == PipeStart /\ [][PipeNext]_vars

RecStart ==
    RecInit /\ clock = Day0 /\ AuthIdle /\ RankIdle /\ NormIdle /\ DomIdle /\ TruncIdle
    /\ PipeIdle /\ JobIdle /\ ExaIdle

\* _calculate_recency_score called on every date of PublishedChoices
SpecRecency == RecStart /\ [][RecNext]_vars

JobStart ==
    JobInit /\ clock = Day0 /\ AuthIdle /\ RankIdle /\ NormIdle /\ DomIdle /\ TruncIdle
    /\ PipeIdle /\ RecIdle /\ ExaIdle

\* one job and MaxStreams streams, under any schedule of the event loop
SpecJob == JobStart /\ [][JobNext]_vars

\* the same, where the background task is run once it is scheduled, the
\* searches and the database calls come back (gather returns), and every
\* open stream is read by its client and woken from its sleep
SpecJobLive ==
    /\ JobStart
    /\ [][JobLiveNext]_vars
    /\ WF_vars(JobRunToGather)
    /\ WF_vars(JobAfterGather)
    /\ \A s \in Streams : WF_vars(StreamResume(s))

ExaStart ==
    ExaInit /\ clock = Day0 /\ AuthIdle /\ RankIdle /\ NormIdle /\ DomIdle /\ TruncIdle
    /\ PipeIdle /\ RecIdle /\ JobIdle

\* one call of ExaClient.search for every max_retries up to MaxRetriesTried and
\* every course of the API calls
SpecExa == ExaStart /\ [][ExaNext]_vars

(***************************************************************************)
(* Claims about get_domain_authority                                       *)
(***************************************************************************)
\* the domain with every leading "www." taken off
RECURSIVE StripLeadingWww(_)
StripLeadingWww(s) ==
    IF StartsWith(s, WwwDot) THEN StripLeadingWww(SubSeq(s, 5, Len(s))) ELSE s

\* the domain, written in lower case and without leading "www.", is a key of
\* the authority table
IsListed(d) == d # NoneStr /\ StripLeadingWww(StrLower(d)) \in ListedDomains

AuthLookups == {<<adDomain, adScore>>, <<adVariant, adVariantScore>>}

\* C8: get_domain_authority returns a value in [0.5, 1.0]; exactly 0.5 for an
\* empty, missing or unlisted domain; more than 0.5 for a listed domain.
C8_AuthorityRange ==
    adCalled =>
        \A l \in AuthLookups :
            /\ l[2] >= 50 /\ l[2] <= 100
            /\ (~IsListed(l[1]) => l[2] = DEFAULT_DOMAIN_AUTHORITY)
            /\ (l[1] \in ListedDomains => l[2] > 50)

RankReturned == rkPc = "done" /\ rkOutcome = "returned"

Positions == 1..Len(rkReturned)

\* C1: with weights whose sum lies outside [0.99, 1.01] the call raises the
\* configuration error for every document list, the empty one included, and
\* does so before now is read or any document is scored.
C1_InvalidWeightsRaise ==
    (rkPc # "idle" /\ ~WeightsValid(rkWeights)) =>
        /\ rkScoredDocs = <<>>
        /\ rkNowReads = 0
        /\ (rkPc = "done" => rkOutcome = "ValueError")

\* C2: with valid weights the call returns as many entries as documents, the
\* entry at position k has rank k, and final_score never increases along the
\* list; no documents give the empty list and no error.
C2_DenseRanksDescending ==
    (rkPc = "done" /\ WeightsValid(rkWeights)) =>
        /\ rkOutcome = "returned"
        /\ Len(rkReturned) = Len(rkDocuments)
        /\ \A k \in Positions : rkReturned[k].rank = k
        /\ \A k \in Positions :
              k < Len(rkReturned) =>
                  rkReturned[k].final_score >= rkReturned[k + 1].final_score

\* C2 witness: three documents were ranked, the scores differ and the best one
\* was not first in the input.
C2_Witness ==
    /\ RankReturned /\ WeightsValid(rkWeights)
    /\ Len(rkReturned) = 3
    /\ rkReturned[1].obj # 1
    /\ rkReturned[1].final_score > rkReturned[3].final_score
    /\ rkReturned[3].rank = 3

\* C3: with weights that pass the check and raw_score in [0, 1], every
\* final_score and heuristic_score lies in [0, 100].
C3_ScoreWithin0And100 ==
    ( /\ rkPc # "idle" /\ WeightsValid(rkWeights)
      /\ \A i \in 1..Len(rkDocuments) :
            rkDocuments[i].raw_score >= 0 /\ rkDocuments[i].raw_score <= 100 ) =>
        \A k \in 1..Len(rkScoredDocs) :
            /\ rkScoredDocs[k].final_score >= 0 /\ rkScoredDocs[k].final_score <= 100
            /\ rkScoredDocs[k].heuristic_score >= 0
            /\ rkScoredDocs[k].heuristic_score <= 100

\* C4: entries of equal final_score stand in the returned list in the order
\* their documents had in the input, and each has its own rank, its position.
C4_StableTies ==
    RankReturned =>
        \A j, k \in Positions :
            (j < k /\ rkReturned[j].final_score = rkReturned[k].final_score) =>
                /\ rkReturned[j].obj < rkReturned[k].obj
                /\ rkReturned[j].rank = j /\ rkReturned[k].rank = k

\* C4 witness: two different documents tie, and a better document that came
\* after them in the input was moved in front of them.
C4_Witness ==
    /\ RankReturned
    /\ \E j, k \in Positions :
          /\ j < k
          /\ rkReturned[j].final_score = rkReturned[k].final_score
          /\ rkReturned[j].document # rkReturned[k].document
          /\ \E b \in Positions :
                b < j /\ rkReturned[b].obj > rkReturned[k].obj

\* C5: the returned list has the length of the input and holds every input
\* document exactly once, unaltered; the input list keeps its order.
C5_Permutation ==
    /\ rkDocuments = rkCallerDocs
    /\ RankReturned =>
          /\ Len(rkReturned) = Len(rkDocuments)
          /\ {rkReturned[k].obj : k \in Positions} = 1..Len(rkDocuments)
          /\ \A k \in Positions :
                rkReturned[k].document = rkDocuments[rkReturned[k].obj]

\* C5 witness: three documents, two of them equal, returned in another order.
C5_Witness ==
    /\ RankReturned
    /\ Len(rkReturned) = 3
    /\ \E i, j \in 1..3 : i # j /\ rkDocuments[i] = rkDocuments[j]
    /\ \E k \in Positions : rkReturned[k].obj # k

\* the three sub-scores of an entry, as the call computed them
RecencyOf(r) == _calculate_recency_score(r.document.published_at, rkNow, rkHalflife)
AuthorityOf(r) == get_domain_authority(r.document.source_domain)
ProviderOf(r) == r.document.raw_score

\* each sub-score of a is at least that of b and one is greater
Dominates(a, b) ==
    /\ RecencyOf(a) >= RecencyOf(b)
    /\ AuthorityOf(a) >= AuthorityOf(b)
    /\ ProviderOf(a) >= ProviderOf(b)
    /\ \/ RecencyOf(a) > RecencyOf(b)
       \/ AuthorityOf(a) > AuthorityOf(b)
       \/ ProviderOf(a) > ProviderOf(b)

C7_NowReadOnce ==
    /\ rkNowReads <= 1
    /\ (rkScoredDocs # <<>> => rkNowReads = 1)
    /\ \A k \in 1..Len(rkScoredDocs) :
          rkScoredDocs[k].final_score =
              final_score_of(rkScoredDocs[k].document, rkNow, rkWeights, rkHalflife)
    /\ \A j, k \in 1..Len(rkScoredDocs) :
          rkScoredDocs[j].document = rkScoredDocs[k].document =>
              rkScoredDocs[j].final_score = rkScoredDocs[k].final_score
    /\ (RankReturned /\ rkDocuments # <<>>) =>
          rkReturned = RankOutput(rkDocuments, rkWeights, rkHalflife, rkNow)

\* C7 witness: the same dated document was scored twice, days apart.
C7_Witness ==
    /\ RankReturned
    /\ rkNow # NoneValue
    /\ clock >= rkNow.wall + MaxTicks
    /\ \E j, k \in Positions :
          /\ j # k
          /\ rkReturned[j].document = rkReturned[k].document
          /\ rkReturned[j].document.published_at # NoneValue
          /\ rkReturned[j].final_score = rkReturned[k].final_score

\* C20: the final_score of every document is 100 * (recency_weight * recency
\* + authority_weight * authority(source_domain) + provider_weight *
\* raw_score) with the weights of the call, and heuristic_score is equal to it.
C20_FinalScoreFormula ==
    \A list \in {rkScoredDocs, rkReturned} :
        \A k \in 1..Len(list) :
            /\ list[k].final_score =
                   ( RoundMul(rkWeights[1], RecencyOf(list[k]))
                   + RoundMul(rkWeights[2], AuthorityOf(list[k]))
                   + RoundMul(rkWeights[3], ProviderOf(list[k])) )
            /\ list[k].heuristic_score = list[k].final_score

\* C20 witness: a call with weights other than the default returned a
\* document a week old, of an unlisted domain, with 41 * 0.5 + 30 * 0.5 +
\* 30 * 0.8 points.
C20_Witness ==
    /\ RankReturned /\ rkWeights = <<41, 30, 30>>
    /\ \E k \in Positions :
          /\ RecencyOf(rkReturned[k]) = 50
          /\ AuthorityOf(rkReturned[k]) = 50
          /\ ProviderOf(rkReturned[k]) = 80
          /\ rkReturned[k].final_score = 21 + 15 + 24
          /\ rkReturned[k].heuristic_score = 60

(***************************************************************************)
(* Claims about normalize_search_result and the pipeline of one record     *)
(***************************************************************************)
\* normalize_search_result has run on the record
PipeNormalized == plPc \in {"rank", "explain", "done"}

\* the date string is missing, empty or not a date
DateUnusable(date_str) ==
    \/ date_str = NoneValue
    \/ date_str.format \in {"empty", "other"}

\* C11: normalize_search_result returns a Document and raises nothing for
\* every record; a missing or malformed date string gives a Document without
\* dates, and a URL that urlparse rejects or that names no host gives the
\* domain "unknown".
C11_NormalizeNeverRaises ==
    PipeNormalized =>
        /\ ~IsRaised(plDoc)
        /\ DOMAIN plDoc = DOMAIN Document(0, 0, 0, 0, 0, 0, 0, 0, 0, 0, 0, 0)
        /\ DateUnusable(plResult.published_date) =>
               /\ plDoc.published_at = NoneValue
               /\ plDoc.published_online = NoneValue
               /\ plDoc.published_issue = NoneValue
        /\ plResult.url \in {Url_bad_bracket, Url_not_a_url} =>
               plDoc.source_domain = Unknown

\* C11 witness: a record whose date string is not a date and whose URL
\* urlparse rejects came out as a Document with no date and domain "unknown".
C11_Witness ==
    /\ PipeNormalized
    /\ plResult.published_date = DateString("other", 0, 0)
    /\ plResult.url = Url_bad_bracket
    /\ urlparse(plResult.url).raises
    /\ ~IsRaised(plDoc)
    /\ plDoc.published_at = NoneValue
    /\ plDoc.source_domain = Unknown

\* C12: with d the parsed date: no d gives three absent date fields; d at
\* most 14 days after the time of normalization gives published_at =
\* published_online = d and no published_issue; a later d gives no
\* published_at, no published_online, and published_issue = d.
C12_DateFieldsThreeWay ==
    (PipeNormalized /\ ~IsRaised(plDoc)) =>
        LET d == _parse_date(plResult.published_date)
            limit == plNormAt + Days(MAX_FUTURE_DAYS)
        IN  /\ DateUnusable(plResult.published_date) => d = NoneValue
            /\ IF d = NoneValue
               THEN /\ plDoc.published_at = NoneValue
                    /\ plDoc.published_online = NoneValue
                    /\ plDoc.published_issue = NoneValue
               ELSE IF (IF d.aware THEN d.wall - d.offset <= limit
                                   ELSE d.wall <= limit + LocalUtcOffset)
               THEN /\ plDoc.published_at = d
                    /\ plDoc.published_online = d
                    /\ plDoc.published_issue = NoneValue
               ELSE /\ plDoc.published_at = NoneValue
                    /\ plDoc.published_online = NoneValue
                    /\ plDoc.published_issue = d

\* C12 witness: a date with a UTC offset, one tick past the tolerance when
\* the record was normalized, was moved to published_issue.
C12_Witness ==
    /\ PipeNormalized /\ ~IsRaised(plDoc)
    /\ plDoc.published_at = NoneValue
    /\ plDoc.published_issue # NoneValue
    /\ plDoc.published_issue.aware
    /\ Instant(plDoc.published_issue) = plNormAt + Days(MAX_FUTURE_DAYS) + 1

\* C13 as stated: a published_at the normalizer kept is not later than the
\* time of normalization plus 14 days, and the age the ranker computes for
\* the document at any later time is not below -14 days.
C13_AgeNeverBelowTolerance ==
    /\ (PipeNormalized /\ ~IsRaised(plDoc)) =>
           (plDoc.published_at # NoneValue =>
               IF plDoc.published_at.aware
               THEN Instant(plDoc.published_at) <= plNormAt + Days(MAX_FUTURE_DAYS)
               ELSE plDoc.published_at.wall
                        <= plNormAt + LocalUtcOffset + Days(MAX_FUTURE_DAYS))
    /\ \A k \in 1..Len(plAge) : plAge[k] >= -Days(MAX_FUTURE_DAYS)

\* C18: id, title, url, author, provider and score (as raw_score) of the
\* record are those of the Document, whatever became of the date, the domain
\* and the snippet; embedding is absent.
C18_FieldsCopied ==
    (PipeNormalized /\ ~IsRaised(plDoc)) =>
        /\ plDoc.id = plResult.id
        /\ plDoc.title = plResult.title
        /\ plDoc.url = plResult.url
        /\ plDoc.author = plResult.author
        /\ plDoc.provider = plResult.provider
        /\ plDoc.raw_score = plResult.score
        /\ plDoc.embedding = NoneValue

\* C18 witness: a record without author whose date was rejected, whose URL
\* gave "unknown" and whose text was cut kept its other fields.
C18_Witness ==
    /\ PipeNormalized /\ ~IsRaised(plDoc)
    /\ plDoc.published_at = NoneValue /\ plDoc.published_issue # NoneValue
    /\ plDoc.source_domain = Unknown
    /\ plDoc.snippet # plResult.text
    /\ plResult.author = NoneStr /\ plDoc.author = NoneStr
    /\ plDoc.title = Title_long /\ plDoc.raw_score = 50

\* C19 as stated: explain_score returns a text for every RankedDoc made from
\* a normalized document: it raises nothing, names the rank and the tier of
\* the domain, and says "unknown age" exactly when published_at is absent,
\* "N days old" otherwise.
C19_ExplainNeverRaises ==
    (plPc = "done" /\ ~IsRaised(plDoc)) =>
        /\ ~IsRaised(plExplained)
        /\ plExplained.rank = plRanked[1].rank
        /\ plExplained.domain = plDoc.source_domain
        /\ plExplained.tier = get_authority_tier(get_domain_authority(plDoc.source_domain))
        /\ (plExplained.age_str.phrase = "unknown age") <=> (plDoc.published_at = NoneValue)
        /\ (plExplained.age_str.phrase = "days old") <=> (plDoc.published_at # NoneValue)

(***************************************************************************)
(* Claims about _truncate_text                                             *)
(***************************************************************************)
\* C14: the snippet has at most 1000 characters; a text of at most 1000
\* characters comes back unchanged; a longer text gives a snippet that ends
\* in "..." and is a prefix of the text before that.
C14_SnippetAtMost1000 ==
    ttPc = "done" =>
        LET n == Len(ttSnippet)
        IN  /\ n <= 1000
            /\ Len(ttText) <= 1000 => ttSnippet = ttText
            /\ Len(ttText) > 1000 =>
                   /\ n >= 3
                   /\ SubSeq(ttSnippet, n - 2, n) = <<".", ".", ".">>
                   /\ SubSeq(ttSnippet, 1, n - 3) = SubSeq(ttText, 1, n - 3)

\* C14 witness: a text of 1001 characters with its last blank at place 799
\* was cut there, and the snippet is shorter than 1000.
C14_Witness ==
    /\ ttPc = "done"
    /\ Len(ttText) = 1001
    /\ ttText[799] = " " /\ ttText[996] = "y" /\ ttText[997] = "y"
    /\ Len(ttSnippet) = 798 + 3

(***************************************************************************)
(* Claims about extract_domain                                             *)
(***************************************************************************)
\* C15 as stated: the domain is never the empty string, whatever the URL.
C15_DomainNeverEmpty ==
    edPc = "done" => edDomain # <<>>

\* C16 as stated: the domain holds no upper-case letter, whatever the URL.
C16_DomainLowerCased ==
    edPc = "done" => \A i \in 1..Len(edDomain) : edDomain[i] \notin UpperSet

\* the host of a URL that has a scheme and "//", when it is a plain host
\* name (no port, no user) of at least two non-empty labels
HasPlainHost(url) ==
    LET parsed == urlparse(url)
        labels == StrSplit(parsed.netloc, ".")
    IN  /\ ~parsed.raises
        /\ parsed.scheme # <<>>
        /\ parsed.netloc # <<>>
        /\ \A i \in 1..Len(parsed.netloc) : parsed.netloc[i] \notin {":", "@"}
        /\ Len(labels) >= 2
        /\ \A k \in 1..Len(labels) : labels[k] # <<>>

\* the last two labels of a host name without its leading "www."
LastTwoLabels(hostname) ==
    LET bare == IF StartsWith(hostname, WwwDot) THEN StrFrom(hostname, 4) ELSE hostname
        labels == StrSplit(bare, ".")
        n == Len(labels)
    IN  IF n >= 2 THEN labels[n - 1] \o <<".">> \o labels[n] ELSE bare

\* C17 as stated: for a URL whose host name has at least two labels the
\* domain is the last two labels of the host name once a leading "www." is
\* taken off; a "www." elsewhere in the host name changes nothing.
C17_LastTwoLabelsOfHost ==
    (edPc = "done" /\ HasPlainHost(edUrl)) =>
        LET hostname == urlparse(edUrl).netloc
        IN  Len(StrSplit(LastTwoLabels(hostname), ".")) = 2 =>
                edDomain = LastTwoLabels(hostname)

\* what line 91 takes for the host name (parsed.netloc or parsed.path),
\* without a leading "www."
BareHostname(url) ==
    LET parsed == urlparse(url)
        hostname == IF parsed.netloc # <<>> THEN parsed.netloc ELSE parsed.path
    IN  IF StartsWith(hostname, WwwDot) THEN StrFrom(hostname, 4) ELSE hostname

\* the URL parses and its host name is one non-empty label
HasOneLabel(url) ==
    /\ url # <<>>
    /\ ~urlparse(url).raises
    /\ BareHostname(url) # <<>>
    /\ Len(StrSplit(BareHostname(url), ".")) = 1

\* C22: for a URL whose host name has exactly one label, extract_domain
\* returns that label when it is "localhost" or the URL had a scheme, and
\* "unknown" otherwise; the empty URL gives "unknown".
C22_SingleLabelHost ==
    edPc = "done" =>
        /\ edUrl = <<>> => edDomain = Unknown
        /\ HasOneLabel(edUrl) =>
               edDomain = IF \/ BareHostname(edUrl) = Localhost
                             \/ urlparse(edUrl).scheme # <<>>
                          THEN BareHostname(edUrl)
                          ELSE Unknown

\* a one-label host other than localhost, without a scheme, gave "unknown"
C22_Witness ==
    /\ edPc = "done"
    /\ HasOneLabel(edUrl)
    /\ urlparse(edUrl).scheme = <<>>
    /\ BareHostname(edUrl) # Localhost
    /\ edDomain = Unknown

\* a one-label host with a scheme gave the label; localhost without a scheme
\* gave "localhost"; the empty URL gave "unknown"
C22_WitnessScheme ==
    /\ edPc = "done"
    /\ HasOneLabel(edUrl)
    /\ urlparse(edUrl).scheme # <<>>
    /\ BareHostname(edUrl) # Localhost
    /\ edDomain = BareHostname(edUrl)
C22_WitnessLocalhost ==
    /\ edPc = "done"
    /\ HasOneLabel(edUrl)
    /\ urlparse(edUrl).scheme = <<>>
    /\ edDomain = Localhost
C22_WitnessEmpty == edPc = "done" /\ edUrl = <<>> /\ edDomain = Unknown


(***************************************************************************)
(* Claims about normalize_batch                                            *)
(***************************************************************************)
\* C10: normalize_batch returns one Document per record, in the order of the
\* records: the i-th Document is the normalization of the i-th record; no
\* records give the empty list.
C10_BatchKeepsOrderAndCount ==
    /\ Len(nbDocs) = Len(nbReadings)
    /\ \A i \in 1..Len(nbDocs) :
          /\ nbDocs[i] = normalize_search_result(nbResults[i], nbReadings[i])
          /\ nbDocs[i].id = nbResults[i].id
    /\ nbPc = "done" =>
          /\ Len(nbReturned) = Len(nbResults)
          /\ \A i \in 1..Len(nbReturned) :
                /\ nbReturned[i].id = nbResults[i].id
                /\ nbReturned[i].url = nbResults[i].url
                /\ nbReturned[i].raw_score = nbResults[i].score

\* C10 witness: three different records, one of them without a usable date
\* and one with a text that was cut, came back as three documents.
C10_Witness ==
    /\ nbPc = "done"
    /\ Len(nbReturned) = 3
    /\ nbReturned[1].id # nbReturned[2].id /\ nbReturned[2].id # nbReturned[3].id
    /\ nbReturned[1].published_at = NoneValue
    /\ nbReturned[3].published_at # NoneValue
    /\ \E i \in 1..3 : nbReturned[i].snippet # nbResults[i].text

\* C10 for no records: the empty list comes back.
C10_WitnessEmpty == nbPc = "done" /\ nbResults = <<>> /\ nbReturned = <<>>

(***************************************************************************)
(* Claims about _calculate_recency_score (SpecRecency)                     *)
(***************************************************************************)
RecDone == rcPc = "done"

\* the age of the finished call in ticks, for a published_at that is not None
RecAge == age_delta(rcPublished, rcNow)

\* the score of a date that is a ticks old, for the half-life of the call
RecScoreAt(a) == _calculate_recency_score(Naive(rcNow.wall - a), rcNow, rcHalflife)

AbsDiff(a, b) == IF a >= b THEN a - b ELSE b - a

\* C21: the recency score is 0.3 without a publication date, 1.0 at age zero
\* or below, and otherwise 0.5^(age/half-life) floored at 0.01: it lies in
\* [0.01, 1.0], is 1.0, 0.5, 0.25 after 0, 1, 2 half-lives, halves over every
\* further half-life, never rises with age and, above the floor, multiplies
\* over a split of the age (f(a + b) = f(a) * f(b), which with f(half-life) =
\* 0.5 and monotonicity singles out the exponential), all to the hundredth.
C21_RecencyReference ==
    RecDone =>
        IF rcPublished = NoneValue THEN rcScore = 30
        ELSE
            LET h == Days(rcHalflife)
            IN  /\ rcScore \in 1..100
                /\ RecAge <= 0 => rcScore = 100
                /\ RecAge = h => rcScore = 50
                /\ RecAge = 2 * h => rcScore = 25
                /\ RecAge > 0 => rcScore <= RecScoreAt(RecAge - 1)
                /\ RecAge >= h =>
                       \/ AbsDiff(2 * rcScore, RecScoreAt(RecAge - h)) <= 1
                       \/ rcScore = 1 /\ RecScoreAt(RecAge - h) <= 2
                /\ RecAge > 0 /\ rcScore > 1 =>
                       \A a \in 0..RecAge :
                           AbsDiff(100 * rcScore,
                                   RecScoreAt(a) * RecScoreAt(RecAge - a)) <= 150

\* a call for a date two half-lives old came back with 0.25
C21_Witness ==
    /\ RecDone
    /\ rcPublished # NoneValue
    /\ rcHalflife = DEFAULT_HALFLIFE
    /\ RecAge = Days(14)
    /\ rcScore = 25

\* a call for a date so old that the floor of 0.01 came back
C21_WitnessFloor ==
    /\ RecDone
    /\ rcPublished # NoneValue
    /\ RecAge >= Days(MaxHalvings) * rcHalflife
    /\ rcScore = 1

\* a call without a date and a call for a date ahead of now
C21_WitnessNone == RecDone /\ rcPublished = NoneValue /\ rcScore = 30
C21_WitnessFuture == RecDone /\ rcPublished # NoneValue /\ RecAge < 0 /\ rcScore = 100

(***************************************************************************)
(* Claims about the job layer (SpecJob, SpecJobLive)                       *)
(***************************************************************************)
JobExists == JobId \in DOMAIN jobs

Terminal(status) == status \in {"completed", "failed"}

\* C23: the status of a job is created as pending and only moves pending ->
\* running -> completed or failed: no terminal status is left, none follows
\* pending directly; the result is non-null exactly when the status is
\* completed.
C23_JobStatusMachine ==
    JobExists =>
        LET job == jobs[JobId]
        IN  /\ job.assigned \in { <<"pending">>,
                                  <<"pending", "running">>,
                                  <<"pending", "running", "completed">>,
                                  <<"pending", "running", "failed">> }
            /\ job.status = job.assigned[Len(job.assigned)]
            /\ (job.result # NoneValue) <=> (job.status = "completed")

\* a job went through pending and running to completed and holds its result
C23_Witness ==
    /\ JobExists
    /\ jobs[JobId].assigned = <<"pending", "running", "completed">>
    /\ jobs[JobId].result # NoneValue

\* a job went through pending and running to failed
C23_WitnessFailed ==
    /\ JobExists
    /\ jobs[JobId].assigned = <<"pending", "running", "failed">>
    /\ jobs[JobId].result = NoneValue

\* the events of the given type in the log of the job
EventsOfType(job, event_type) ==
    {i \in 1..Len(job.events) : job.events[i].event = event_type}

\* the warnings of the log whose message starts with the given text
WarningsOf(job, prefix) ==
    {i \in EventsOfType(job, "warning") : job.events[i].data.message[1] = prefix}

\* the event log says that the step was reported
Reported(job, step) ==
    \E i \in EventsOfType(job, "progress") : job.events[i].data.step = step

\* the job failed because the database client could not be built (line 114)
DatabaseUnconfigured(job) ==
    /\ job.status = "failed"
    /\ job.events[Len(job.events)].data.message =
           <<"Supabase URL must be provided or set in NEXT_PUBLIC_SUPABASE_URL/SUPABASE_URL">>

C24_WitnessOne ==
    /\ JobExists
    /\ jbTasks # <<>>
    /\ jbTasks[1].raised
    /\ ~jbTasks[2].raised
    /\ jobs[JobId].status = "completed"
    /\ jobs[JobId].result.total_results = 1

\* a stream that was opened on the job
Opened(s) == stPc[s] \in {"opened", "yielded", "sleeping", "result", "closed"}

\* what a stream hands out for an event of the log (lines 247-250)
StreamItem(e) == [event |-> e.event, data |-> e.data]

\* the number of log events stream s has handed out: all its items but the
\* result item that ends the stream of a completed job
Delivered(s) ==
    IF stPc[s] \in {"result", "closed"} /\ jobs[JobId].status = "completed"
    THEN Len(stOut[s]) - 1
    ELSE Len(stOut[s])

\* C25: every stream, whenever it was opened and however streams and task
\* are interleaved, has handed out a prefix of the event log, each event
\* once and in the order of the log, and has ended only with the whole log
\* handed out and a terminal status seen.
C25_StreamDeliversLogInOrder ==
    \A s \in Streams :
        Opened(s) =>
            LET job == jobs[JobId]
            IN  /\ Delivered(s) \in 0..Len(job.events)
                /\ \A i \in 1..Delivered(s) :
                       /\ stOut[s][i].event = job.events[i].event
                       /\ stOut[s][i] = StreamItem(job.events[i])
                /\ stPc[s] \in {"result", "closed"} =>
                       /\ Terminal(job.status)
                       /\ Delivered(s) = Len(job.events)

\* two streams have ended, one of them opened before the task began and one
\* after the log had its first events, and both hold the whole log
C25_Witness ==
    /\ \A s \in Streams : stPc[s] = "closed"
    /\ \A s \in Streams : Delivered(s) = Len(jobs[JobId].events)
    /\ Len(jobs[JobId].events) > 2

\* the items of stream s whose event is of the given type
ItemsOfType(s, event_type) ==
    {i \in 1..Len(stOut[s]) : stOut[s][i].event = event_type}

\* C26: the first event of a log is "started"; a log holds at most one
\* terminal event ("completed" or "error"), it is the last one and it is
\* there exactly when the status is terminal; a stream that has ended on a
\* completed job handed out, after "completed", one last "result" item with
\* the non-null result; a stream that has ended on a failed job handed out
\* "error" last and no "result" item.
C26_EventLogShape ==
    JobExists =>
        LET job == jobs[JobId]
            n == Len(job.events)
            terminal == EventsOfType(job, "completed") \cup EventsOfType(job, "error")
        IN  /\ n > 0 => job.events[1].event = "started"
            /\ terminal \subseteq {n}
            /\ job.status = "completed" <=> EventsOfType(job, "completed") # {}
            /\ job.status = "failed" <=> EventsOfType(job, "error") # {}
            /\ \A s \in Streams :
                   stPc[s] = "closed" =>
                       LET m == Len(stOut[s])
                       IN  IF job.status = "completed"
                           THEN /\ ItemsOfType(s, "result") = {m}
                                /\ stOut[s][m].data = job.result
                                /\ job.result # NoneValue
                                /\ stOut[s][m - 1].event = "completed"
                           ELSE /\ ItemsOfType(s, "result") = {}
                                /\ stOut[s][m].event = "error"

\* a stream has ended on a completed job with "completed" and "result" last
C26_Witness ==
    /\ JobExists
    /\ jobs[JobId].status = "completed"
    /\ stPc[1] = "closed"
    /\ stOut[1][1].event = "started"
    /\ stOut[1][Len(stOut[1])].event = "result"

\* a stream has ended on a failed job with "error" last
C26_WitnessFailed ==
    /\ JobExists
    /\ jobs[JobId].status = "failed"
    /\ stPc[1] = "closed"
    /\ stOut[1][Len(stOut[1])].event = "error"

\* C27: when the background task is run and every search and database call
\* comes back, a job that has been created reaches completed or failed, and
\* a stream that has been opened on it ends.
C27_JobAndStreamsFinish ==
    /\ JobExists ~> (JobExists /\ Terminal(jobs[JobId].status))
    /\ \A s \in LiveStreams : (stPc[s] = "opened") ~> (stPc[s] = "closed")

\* the job is in a terminal status and every stream opened has ended
C27_Witness ==
    /\ JobExists
    /\ Terminal(jobs[JobId].status)
    /\ \A s \in LiveStreams : stPc[s] = "closed"
    /\ \E s \in LiveStreams : Len(stOut[s]) > 0

(***************************************************************************)
(* Claims about ExaClient.search (SpecExa)                                 *)
(***************************************************************************)
\* the places of the log where the API was called, where it raised or gave a
\* response that could not be transformed, where it gave a response that
\* was returned, and where the call slept
ExaCalls == {i \in 1..Len(exLog) : exLog[i].op = "call"}
ExaErrors == {i \in 1..Len(exLog) : exLog[i].op = "error"}
ExaResponses == {i \in 1..Len(exLog) : exLog[i].op = "response"}
ExaSleeps == {i \in 1..Len(exLog) : exLog[i].op = "sleep"}

\* the waits of the call, in order
RECURSIVE WaitsOf(_)
WaitsOf(log) ==
    IF log = <<>> THEN <<>>
    ELSE LET before == WaitsOf(SubSeq(log, 1, Len(log) - 1))
             last == log[Len(log)]
         IN  IF last.op = "sleep" THEN Append(before, last.seconds) ELSE before

\* the messages of ApiErrors that tell of a rate limit
RateLimitMessages == {Msg_rate_limit, Msg_429, Msg_too_many, Msg_quota}

\* C28: one call of search makes at most max_retries API calls; it returns
\* the transformed results of the first attempt that succeeds and calls the
\* API no more after it; when no attempt succeeds it raises.
C28_AtMostMaxRetriesCalls ==
    /\ Cardinality(ExaCalls) <= exMaxRetries
    /\ ExaResponses \subseteq {Len(exLog)}
    /\ ExaResponses # {} =>
           /\ exPc = "done"
           /\ ~exOutcome.raised
           /\ exLog[Len(exLog) - 1].op = "call"
    /\ exPc = "done" =>
           /\ exOutcome.raised <=> ExaResponses = {}
           /\ ~exOutcome.raised =>
                  \E response \in ApiResponses :
                      exOutcome = _transform_response(response.value)

\* a call came back with results at its third attempt, after two failed ones
C28_Witness ==
    /\ exPc = "done"
    /\ ~exOutcome.raised
    /\ Len(exOutcome.value) = 1
    /\ Cardinality(ExaCalls) = 3
    /\ Cardinality(ExaErrors) = 2

\* a call with max_retries = 3 raised after three failed attempts
C28_WitnessAllFail ==
    /\ exPc = "done"
    /\ exMaxRetries = DEFAULT_MAX_RETRIES
    /\ exOutcome.raised
    /\ Cardinality(ExaCalls) = 3
    /\ Cardinality(ExaErrors) = 3

\* C29: a wait follows only a rate-limit error of an attempt that is not the
\* last; after an error that is no rate-limit error, and after the error of
\* the last attempt, the call raises with no wait and no further API call.
C29_RetryOnlyOnRateLimit ==
    /\ \A i \in ExaSleeps :
           /\ i - 1 \in ExaErrors
           /\ exLog[i - 1].error.message \in RateLimitMessages
           /\ Cardinality({c \in ExaCalls : c < i}) < exMaxRetries
    /\ \A i \in ExaErrors :
           ( \/ exLog[i].error.message \notin RateLimitMessages
             \/ Cardinality({c \in ExaCalls : c < i}) = exMaxRetries ) =>
               /\ i = Len(exLog)
               /\ exPc = "done"
               /\ exOutcome.raised
    /\ \A i \in ExaErrors :
           ( /\ exLog[i].error.message \in RateLimitMessages
             /\ Cardinality({c \in ExaCalls : c < i}) < exMaxRetries ) =>
               i + 1 \in ExaSleeps

\* a first attempt failed with an error that is no rate-limit error and the
\* call raised at once, with attempts to spare
C29_Witness ==
    /\ exPc = "done"
    /\ exMaxRetries = DEFAULT_MAX_RETRIES
    /\ exOutcome.raised
    /\ Len(exLog) = 2
    /\ exLog[2].op = "error"
    /\ exLog[2].error.message = Msg_timeout

\* the last of three attempts hit the rate limit and the call raised without
\* a third wait
C29_WitnessLast ==
    /\ exPc = "done"
    /\ exMaxRetries = DEFAULT_MAX_RETRIES
    /\ exOutcome.raised
    /\ Cardinality(ExaCalls) = 3
    /\ exLog[Len(exLog)].error.message \in RateLimitMessages
    /\ Cardinality(ExaSleeps) = 2

\* every attempt of a finished call with the default max_retries hit the
\* rate limit
AllAttemptsRateLimited ==
    /\ exPc = "done"
    /\ exMaxRetries = DEFAULT_MAX_RETRIES
    /\ Cardinality(ExaCalls) = DEFAULT_MAX_RETRIES
    /\ Cardinality(ExaErrors) = DEFAULT_MAX_RETRIES
    /\ \A i \in ExaErrors : exLog[i].error.message \in RateLimitMessages

\* C30 as stated: when every attempt hits the rate limit with the default
\* max_retries = 3, the waits before giving up are 2 s, 4 s and 8 s.
C30_WaitsTwoFourEight ==
    AllAttemptsRateLimited => WaitsOf(exLog) = <<2, 4, 8>>

\* what the code does in that case: it waits 2 s and 4 s and raises at the
\* third error
C30_WaitsTwoFour ==
    AllAttemptsRateLimited => WaitsOf(exLog) = <<2, 4>>

====
